---- MODULE Spec2Model ----
(***************************************************************************)
(* A model of the ERC-7579 user-operation server: the operation builder    *)
(* (src/src/uo_builder.rs), the operation record, its unsigned packing and *)
(* hash (src/src/primitives/user_operation.rs), and the bundler client     *)
(* (src/src/userop_middleware.rs).                                         *)
(*                                                                         *)
(* Each component has its own specification over the shared variables:     *)
(*   SpecBuilder   the builder's accumulator, its setters and build_uo     *)
(*   SpecHash      two operations, their chained setters and hash          *)
(*   SpecResponse  the bundler client's calls and the relay's answer       *)
(*   SpecFee       get_gas_fee over the latest block of the chain          *)
(*   SpecTransfer  uogen_send_eth, step by step                            *)
(*   SpecAccount   whole builders: account kinds, clones, address query    *)
(*   SpecSign      sign_uo with the client's signer                        *)
(***************************************************************************)
EXTENDS Integers, Sequences, FiniteSets, TLC

(***************************************************************************)
(* Bounds of the model.                                                    *)
(***************************************************************************)
\* Largest number of fields a seed partial handed to from_uo leaves absent.
MaxAbsent == 1
\* Largest number of per-field setter calls explored on one builder.
MaxSets == 2
\* Largest number of changes made to the arguments of two hash calls.
MaxMut == 2

\* Largest number of operations applied to whole builders.
MaxOps == 2

\* Largest number of transactions of the latest block.
MaxTx == 3

(***************************************************************************)
(* Values.  Option<T> is a sequence of length at most one.  An Address and *)
(* a U256 are naturals, Bytes and String are sequences of byte values.     *)
(***************************************************************************)
None == <<>>

Some(v) == <<v>>

\* Address::zero()
AddressZero == 0

\* U256::zero()
U256Zero == 0

\* Bytes::default()
BytesDefault == <<>>

\* "0x".to_string(): the two characters '0' (48) and 'x' (120)
PaymasterNone == <<48, 120>>

\* The values the model hands to the setters, per field type.
Addrs == {1, 2}

U256s == {1, 2}

ByteStrs == {<<>>, <<1>>}

Strs == {PaymasterNone, <<48, 120, 49>>}

\* The fields of UserOperation / UserOperationPartial in declaration order.
FieldOrder ==
    << "sender", "nonce", "factory", "factory_data", "call_data",
       "call_gas_limit", "verification_gas_limit", "pre_verification_gas",
       "max_fee_per_gas", "max_priority_fee_per_gas", "paymaster",
       "paymaster_verification_gas_limit", "paymaster_post_op_gas_limit",
       "paymaster_data", "signature" >>

Fields == {FieldOrder[i] : i \in 1..Len(FieldOrder)}

AddressFields == {"sender", "factory"}

BytesFields == {"factory_data", "call_data", "paymaster_data", "signature"}

StringFields == {"paymaster"}

U256Fields == Fields \ (AddressFields \cup BytesFields \cup StringFields)

\* The values of a field's type.
ValuesOf(f) ==
    IF f \in AddressFields THEN Addrs
    ELSE IF f \in BytesFields THEN ByteStrs
    ELSE IF f \in StringFields THEN Strs
    ELSE U256s

VARIABLES
    uo,        \* builder: the UserOperationPartial accumulator (self.uo)
    lastSet,   \* history: per field, the value most recently supplied for it
    nsets,     \* number of setter calls made so far on this builder
    bret,      \* what the builder call made last returned
    hin,       \* hash: the arguments (operation, entry point, chain id) of
               \*       two hash calls under comparison
    hout,      \* hash: per call, what hash returned on the current arguments
    nmut,      \* hash: number of changes made so far to the arguments
    answer,    \* client: what the relay answers to a request
    rop,       \* client: the call made last
    rret,      \* client: what that call returned
    latest,    \* fee: what the provider reports about the latest block
    fret,      \* fee: what get_gas_fee returned
    tenv,      \* transfer: the arguments and what chain and relay will answer
    tpc,       \* transfer: the position of uogen_send_eth
    tlog,      \* transfer: the steps issued so far, in order
    tlocals,   \* transfer: the local variables of uogen_send_eth
    tret,      \* transfer: what uogen_send_eth returned
    builders,  \* account: the builders made so far
    heap,      \* account: the boxes the builders own
    aop,       \* account: the operation applied last
    aret,      \* account: what that operation returned
    nops,      \* account: number of operations applied to builders
    sin,       \* sign: the client, the operation and the signer's answer
    sout,      \* sign: what sign_uo returned and what the signer was given
    cin,       \* conversion: the partial operation given
    cout,      \* conversion: what the conversion returned
    kin,       \* calls: the client, the arguments and what the chain answers
    kout       \* calls: the client call made last, its query and its result

builderVars == <<uo, lastSet, nsets, bret>>

hashVars == <<hin, hout, nmut>>

responseVars == <<answer, rop, rret>>

feeVars == <<latest, fret>>

transferVars == <<tenv, tpc, tlog, tlocals, tret>>

accountVars == <<builders, heap, aop, aret, nops>>

signVars == <<sin, sout>>

convertVars == <<cin, cout>>

callVars == <<kin, kout>>

vars ==
    <<uo, lastSet, nsets, bret, hin, hout, nmut, answer, rop, rret, latest, fret,
      tenv, tpc, tlog, tlocals, tret, builders, heap, aop, aret, nops,
      sin, sout, cin, cout, kin, kout>>

\* The variables of the other components, which a builder call leaves alone.
notBuilderVars ==
    <<hashVars, responseVars, feeVars, transferVars,
      accountVars, signVars, convertVars, callVars>>

\* The variables of the other components, which a hash call leaves alone.
notHashVars ==
    <<builderVars, responseVars, feeVars, transferVars,
      accountVars, signVars, convertVars, callVars>>

\* The variables of the other components, which a relay call leaves alone.
notResponseVars ==
    <<builderVars, hashVars, feeVars, transferVars,
      accountVars, signVars, convertVars, callVars>>

\* The variables of the other components, which get_gas_fee leaves alone.
notFeeVars ==
    <<builderVars, hashVars, responseVars, transferVars,
      accountVars, signVars, convertVars, callVars>>

\* The variables of the other components, which uogen_send_eth leaves alone.
notTransferVars ==
    <<builderVars, hashVars, responseVars, feeVars,
      accountVars, signVars, convertVars, callVars>>

\* The variables of the other components, which a builder leaves alone.
notAccountVars ==
    <<builderVars, hashVars, responseVars, feeVars, transferVars, signVars,
      convertVars, callVars>>

\* The variables of the other components, which sign_uo leaves alone.
notSignVars ==
    <<builderVars, hashVars, responseVars, feeVars, transferVars, accountVars,
      convertVars, callVars>>

\* The variables of the other components, which a conversion leaves alone.
notConvertVars ==
    <<builderVars, hashVars, responseVars, feeVars, transferVars, accountVars,
      signVars, callVars>>

\* The variables of the other components, which a client call leaves alone.
notCallVars ==
    <<builderVars, hashVars, responseVars, feeVars, transferVars, accountVars,
      signVars, convertVars>>

\* The components that take no part in a specification stay idle.
BuilderIdle == uo = <<>> /\ lastSet = <<>> /\ nsets = 0 /\ bret = <<>>

HashIdle == hin = <<>> /\ hout = <<>> /\ nmut = 0

ResponseIdle == answer = <<>> /\ rop = "" /\ rret = <<>>

FeeIdle == latest = <<>> /\ fret = <<>>

TransferIdle ==
    tenv = <<>> /\ tpc = "" /\ tlog = <<>> /\ tlocals = <<>> /\ tret = <<>>

AccountIdle ==
    builders = <<>> /\ heap = <<>> /\ aop = <<>> /\ aret = <<>> /\ nops = 0

SignIdle == sin = <<>> /\ sout = <<>>

ConvertIdle == cin = <<>> /\ cout = <<>>

CallIdle == kin = <<>> /\ kout = <<>>

(***************************************************************************)
(* Operation builder (src/src/uo_builder.rs)                               *)
(***************************************************************************)

\* The accumulator UserOperationBuilder::new starts from: every field None.
new ==
    [ sender |-> None, nonce |-> None, factory |-> None,
      factory_data |-> None, call_data |-> None, call_gas_limit |-> None,
      verification_gas_limit |-> None, pre_verification_gas |-> None,
      max_fee_per_gas |-> None, max_priority_fee_per_gas |-> None,
      paymaster |-> None, paymaster_verification_gas_limit |-> None,
      paymaster_post_op_gas_limit |-> None, paymaster_data |-> None,
      signature |-> None ]

\* set_uo: the whole accumulator is replaced.
set_uo(self_uo, p) == p

\* from_uo: new(...) followed by set_uo(uo).
from_uo(p) == set_uo(new, p)

set_uo_sender(u, v) == [u EXCEPT !.sender = Some(v)]

set_uo_nonce(u, v) == [u EXCEPT !.nonce = Some(v)]

set_uo_factory(u, v) == [u EXCEPT !.factory = Some(v)]

set_uo_factory_data(u, v) == [u EXCEPT !.factory_data = Some(v)]

set_uo_call_data(u, v) == [u EXCEPT !.call_data = Some(v)]

set_uo_call_gas_limit(u, v) == [u EXCEPT !.call_gas_limit = Some(v)]

\* A setter that writes its neighbour's field.
set_uo_verification_gas_limit_wrong_field(u, v) ==
    [u EXCEPT !.call_gas_limit = Some(v)]

set_uo_verification_gas_limit(u, v) ==
    [u EXCEPT !.verification_gas_limit = Some(v)]

set_uo_pre_verification_gas(u, v) ==
    [u EXCEPT !.pre_verification_gas = Some(v)]

set_uo_max_fee_per_gas(u, v) == [u EXCEPT !.max_fee_per_gas = Some(v)]

set_uo_max_priority_fee_per_gas(u, v) ==
    [u EXCEPT !.max_priority_fee_per_gas = Some(v)]

\* set_uo_paymaster with the paymaster data dropped.
set_uo_paymaster_drops_data(u, v) ==
    [u EXCEPT !.paymaster = Some(v), !.paymaster_data = None]

set_uo_paymaster(u, v) == [u EXCEPT !.paymaster = Some(v)]

set_uo_paymaster_verification_gas_limit(u, v) ==
    [u EXCEPT !.paymaster_verification_gas_limit = Some(v)]

set_uo_paymaster_post_op_gas_limit(u, v) ==
    [u EXCEPT !.paymaster_post_op_gas_limit = Some(v)]

set_uo_paymaster_data(u, v) == [u EXCEPT !.paymaster_data = Some(v)]

set_uo_signature(u, v) == [u EXCEPT !.signature = Some(v)]

\* The conversion with an absent paymaster turned into the empty string.
FromPartial_empty_paymaster(p) ==
    [f \in Fields |->
        IF p[f] # None THEN p[f][1]
        ELSE IF f \in AddressFields THEN AddressZero
        ELSE IF f \in U256Fields THEN U256Zero
        ELSE BytesDefault]

\* From<UserOperationPartial> for UserOperation: a present field keeps its
\* value, an absent one takes the default of its type.
FromPartial(p) ==
    [ sender |-> IF p.sender # None THEN p.sender[1] ELSE AddressZero,
      nonce |-> IF p.nonce # None THEN p.nonce[1] ELSE U256Zero,
      factory |-> IF p.factory # None THEN p.factory[1] ELSE AddressZero,
      factory_data |->
          IF p.factory_data # None THEN p.factory_data[1] ELSE BytesDefault,
      call_data |->
          IF p.call_data # None THEN p.call_data[1] ELSE BytesDefault,
      call_gas_limit |->
          IF p.call_gas_limit # None THEN p.call_gas_limit[1] ELSE U256Zero,
      verification_gas_limit |->
          IF p.verification_gas_limit # None
          THEN p.verification_gas_limit[1] ELSE U256Zero,
      pre_verification_gas |->
          IF p.pre_verification_gas # None
          THEN p.pre_verification_gas[1] ELSE U256Zero,
      max_fee_per_gas |->
          IF p.max_fee_per_gas # None THEN p.max_fee_per_gas[1] ELSE U256Zero,
      max_priority_fee_per_gas |->
          IF p.max_priority_fee_per_gas # None
          THEN p.max_priority_fee_per_gas[1] ELSE U256Zero,
      paymaster |->
          IF p.paymaster # None THEN p.paymaster[1] ELSE PaymasterNone,
      paymaster_verification_gas_limit |->
          IF p.paymaster_verification_gas_limit # None
          THEN p.paymaster_verification_gas_limit[1] ELSE U256Zero,
      paymaster_post_op_gas_limit |->
          IF p.paymaster_post_op_gas_limit # None
          THEN p.paymaster_post_op_gas_limit[1] ELSE U256Zero,
      paymaster_data |->
          IF p.paymaster_data # None THEN p.paymaster_data[1] ELSE BytesDefault,
      signature |->
          IF p.signature # None THEN p.signature[1] ELSE BytesDefault ]

\* UserOpBuilderError::MissingUserOperationField(name), returned as Err.
MissingUserOperationField(name) ==
    [tag |-> "Err", error |-> "MissingUserOperationField", field |-> name]

\* A build_uo that does not require the signature.
build_uo_unsigned(p) ==
    IF \E i \in 1..14 : p[FieldOrder[i]] = None
    THEN MissingUserOperationField(
            FieldOrder[CHOOSE i \in 1..14 :
                /\ p[FieldOrder[i]] = None
                /\ \A j \in 1..(i - 1) : p[FieldOrder[j]] # None])
    ELSE [tag |-> "Ok", op |-> FromPartial(p)]

\* build_uo: the presence checks in the order the code makes them, then the
\* conversion of the accumulator.
build_uo(p) ==
    IF p.sender = None THEN MissingUserOperationField("sender")
    ELSE IF p.nonce = None THEN MissingUserOperationField("nonce")
    ELSE IF p.factory = None THEN MissingUserOperationField("factory")
    ELSE IF p.factory_data = None
        THEN MissingUserOperationField("factory_data")
    ELSE IF p.call_data = None THEN MissingUserOperationField("call_data")
    ELSE IF p.call_gas_limit = None
        THEN MissingUserOperationField("call_gas_limit")
    ELSE IF p.verification_gas_limit = None
        THEN MissingUserOperationField("verification_gas_limit")
    ELSE IF p.pre_verification_gas = None
        THEN MissingUserOperationField("pre_verification_gas")
    ELSE IF p.max_fee_per_gas = None
        THEN MissingUserOperationField("max_fee_per_gas")
    ELSE IF p.max_priority_fee_per_gas = None
        THEN MissingUserOperationField("max_priority_fee_per_gas")
    ELSE IF p.paymaster = None THEN MissingUserOperationField("paymaster")
    ELSE IF p.paymaster_verification_gas_limit = None
        THEN MissingUserOperationField("paymaster_verification_gas_limit")
    ELSE IF p.paymaster_post_op_gas_limit = None
        THEN MissingUserOperationField("paymaster_post_op_gas_limit")
    ELSE IF p.paymaster_data = None
        THEN MissingUserOperationField("paymaster_data")
    ELSE IF p.signature = None THEN MissingUserOperationField("signature")
    ELSE [tag |-> "Ok", op |-> FromPartial(p)]

\* The partials the model seeds a builder with through from_uo: every field
\* present except at most MaxAbsent of them.
SeedValue(f) == CHOOSE v \in ValuesOf(f) : TRUE

SeedPartials ==
    { [f \in Fields |-> IF f \in absent THEN None ELSE Some(SeedValue(f))] :
        absent \in {s \in SUBSET Fields : Cardinality(s) <= MaxAbsent} }

\* What a setter returns: the builder itself, for chaining.
RetSelf == [tag |-> "Self"]

\* No builder call has returned yet.
RetNone == [tag |-> "None"]

InitBuilder ==
    /\ \/ uo = new
       \/ \E p \in SeedPartials : uo = from_uo(p)
    /\ lastSet = uo
    /\ nsets = 0
    /\ bret = RetNone
    /\ HashIdle
    /\ ResponseIdle
    /\ FeeIdle
    /\ TransferIdle
    /\ AccountIdle
    /\ SignIdle
    /\ ConvertIdle
    /\ CallIdle

\* One call of the setter of field f with value v, whose effect on the
\* accumulator is u2.
SetterCall(f, v, u2) ==
    /\ nsets < MaxSets
    /\ uo' = u2
    /\ lastSet' = [lastSet EXCEPT ![f] = Some(v)]
    /\ nsets' = nsets + 1
    /\ bret' = RetSelf
    /\ UNCHANGED notBuilderVars

SetUoSender ==
    \E v \in Addrs : SetterCall("sender", v, set_uo_sender(uo, v))

SetUoNonce ==
    \E v \in U256s : SetterCall("nonce", v, set_uo_nonce(uo, v))

SetUoFactory ==
    \E v \in Addrs : SetterCall("factory", v, set_uo_factory(uo, v))

SetUoFactoryData ==
    \E v \in ByteStrs :
        SetterCall("factory_data", v, set_uo_factory_data(uo, v))

SetUoCallData ==
    \E v \in ByteStrs : SetterCall("call_data", v, set_uo_call_data(uo, v))

SetUoCallGasLimit ==
    \E v \in U256s :
        SetterCall("call_gas_limit", v, set_uo_call_gas_limit(uo, v))

SetUoVerificationGasLimit ==
    \E v \in U256s :
        SetterCall("verification_gas_limit", v,
                   set_uo_verification_gas_limit(uo, v))

SetUoPreVerificationGas ==
    \E v \in U256s :
        SetterCall("pre_verification_gas", v,
                   set_uo_pre_verification_gas(uo, v))

SetUoMaxFeePerGas ==
    \E v \in U256s :
        SetterCall("max_fee_per_gas", v, set_uo_max_fee_per_gas(uo, v))

SetUoMaxPriorityFeePerGas ==
    \E v \in U256s :
        SetterCall("max_priority_fee_per_gas", v,
                   set_uo_max_priority_fee_per_gas(uo, v))

SetUoPaymaster ==
    \E v \in Strs : SetterCall("paymaster", v, set_uo_paymaster(uo, v))

SetUoPaymasterVerificationGasLimit ==
    \E v \in U256s :
        SetterCall("paymaster_verification_gas_limit", v,
                   set_uo_paymaster_verification_gas_limit(uo, v))

SetUoPaymasterPostOpGasLimit ==
    \E v \in U256s :
        SetterCall("paymaster_post_op_gas_limit", v,
                   set_uo_paymaster_post_op_gas_limit(uo, v))

SetUoPaymasterData ==
    \E v \in ByteStrs :
        SetterCall("paymaster_data", v, set_uo_paymaster_data(uo, v))

SetUoSignature ==
    \E v \in ByteStrs : SetterCall("signature", v, set_uo_signature(uo, v))

\* build_uo(&self): reads the accumulator, changes nothing.
BuildUo ==
    /\ bret' = build_uo(uo)
    /\ UNCHANGED <<uo, lastSet, nsets>>
    /\ UNCHANGED notBuilderVars

NextBuilder ==
    \/ SetUoSender
    \/ SetUoNonce
    \/ SetUoFactory
    \/ SetUoFactoryData
    \/ SetUoCallData
    \/ SetUoCallGasLimit
    \/ SetUoVerificationGasLimit
    \/ SetUoPreVerificationGas
    \/ SetUoMaxFeePerGas
    \/ SetUoMaxPriorityFeePerGas
    \/ SetUoPaymaster
    \/ SetUoPaymasterVerificationGasLimit
    \/ SetUoPaymasterPostOpGasLimit
    \/ SetUoPaymasterData
    \/ SetUoSignature
    \/ BuildUo

SpecBuilder == InitBuilder /\ [][NextBuilder]_vars

(***************************************************************************)
(* Properties of the builder                                               *)
(***************************************************************************)

\* The last builder call was build_uo.
BuildReturned == bret.tag \in {"Ok", "Err"}

AbsentFields(p) == {f \in Fields : p[f] = None}

\* The first absent field in declaration order.
FirstAbsent(p) ==
    FieldOrder[CHOOSE i \in 1..Len(FieldOrder) :
        /\ p[FieldOrder[i]] = None
        /\ \A j \in 1..(i - 1) : p[FieldOrder[j]] # None]

\* C1: whenever build_uo is called on an accumulator with at least one absent
\* field, it fails with MissingUserOperationField naming the first absent
\* field in declaration order (so, with one field absent, that field).
C1_FirstMissingFieldNamed ==
    (BuildReturned /\ AbsentFields(uo) # {}) =>
        /\ bret.tag = "Err"
        /\ bret.error = "MissingUserOperationField"
        /\ bret.field = FirstAbsent(uo)

\* build_uo has failed on an accumulator whose only absent field is the
\* signature, after setter calls.
C1_Witness ==
    /\ bret.tag = "Err"
    /\ bret.field = "signature"
    /\ AbsentFields(uo) = {"signature"}
    /\ nsets > 0

\* C2: whenever build_uo is called on an accumulator with all fifteen fields
\* present it succeeds, and every field of the returned operation is the
\* value most recently supplied for that field.
C2_BuildRoundTrip ==
    (BuildReturned /\ AbsentFields(uo) = {}) =>
        /\ bret.tag = "Ok"
        /\ \A f \in Fields : lastSet[f] # None /\ bret.op[f] = lastSet[f][1]

\* build_uo has succeeded after two setter calls that overwrote values.
C2_Witness ==
    /\ bret.tag = "Ok"
    /\ nsets >= 2
    /\ bret.op.nonce = 2
    /\ bret.op.signature = <<1>>

(***************************************************************************)
(* Operation record, unsigned packing and hash                             *)
(* (src/src/primitives/user_operation.rs)                                  *)
(*                                                                         *)
(* Encoded data is a byte string [len, words]: its length in bytes and its *)
(* bytes cut into 32-byte words, the last one right-padded with zeros.  A  *)
(* word is <<"w", p, bs>>, whose bytes are zero except for bs, which       *)
(* starts at position p (1..32) and begins and ends with a non-zero byte   *)
(* (the zero word is <<"w", 0, <<>>>>), or it is a digest                  *)
(* <<"keccak256", x>>, the 32 bytes keccak256 yields on the byte string x. *)
(* Every byte string has exactly one such form.  Two digests are equal     *)
(* exactly when their preimages are (the digest is collision-free), and no *)
(* digest equals a word of plain bytes.                                    *)
(***************************************************************************)

\* ethers::utils::keccak256
keccak256(x) == <<"keccak256", x>>

\* The word whose leading bytes are bs (at most 32) and whose other bytes
\* are zero.
WordOfBytes(bs) ==
    LET nz == {i \in 1..Len(bs) : bs[i] # 0}
        p == CHOOSE i \in nz : \A j \in nz : i <= j
        q == CHOOSE i \in nz : \A j \in nz : j <= i
    IN  IF nz = {} THEN <<"w", 0, <<>>>> ELSE <<"w", p, SubSeq(bs, p, q)>>

\* The k-byte big-endian form of the natural n.  The naturals of the model
\* are below 2^31, so every byte above the low four is zero.
BigEndian(n, k) ==
    [i \in 1..k |-> IF k - i > 3 THEN 0 ELSE (n \div (256 ^ (k - i))) % 256]

\* One 32-byte ABI word holding the natural n (an address is left-padded
\* like a uint160).
Word(n) == WordOfBytes(BigEndian(n, 32))

\* The encoded form of a Bytes or String value (Deref / as_bytes).
Raw(b) ==
    [ len |-> Len(b),
      words |->
          [j \in 1..((Len(b) + 31) \div 32) |->
              WordOfBytes(SubSeq(b, 32 * (j - 1) + 1,
                                 IF 32 * j < Len(b) THEN 32 * j ELSE Len(b)))] ]

\* The byte string made of whole words.
WordsBytes(ws) == [len |-> 32 * Len(ws), words |-> ws]

\* The ABI tokens.
TAddress(a) == [t |-> "address", v |-> a]

TUint(n) == [t |-> "uint", v |-> n]

TBytes(x) == [t |-> "bytes", v |-> x]

TString(x) == [t |-> "string", v |-> x]

IsDynamic(tok) == tok.t \in {"bytes", "string"}

\* The tail of a token: nothing for a static token, the length word and the
\* padded data for a dynamic one.
AbiTail(tok) ==
    IF IsDynamic(tok) THEN <<Word(tok.v.len)>> \o tok.v.words ELSE <<>>

\* The number of bytes of a token's tail.
AbiTailLen(tok) == IF IsDynamic(tok) THEN 32 * (1 + Len(tok.v.words)) ELSE 0

RECURSIVE TailBytesBefore(_, _)
\* The bytes the tails of the tokens before the i-th take.
TailBytesBefore(toks, i) ==
    IF i = 1 THEN 0
    ELSE TailBytesBefore(toks, i - 1) + AbiTailLen(toks[i - 1])

\* The head of the i-th token: its word for a static token, the offset of
\* its tail from the start of the encoding for a dynamic one.
AbiHead(toks, i) ==
    IF IsDynamic(toks[i])
    THEN Word(32 * Len(toks) + TailBytesBefore(toks, i))
    ELSE Word(toks[i].v)

RECURSIVE AbiTailsUpTo(_, _)
\* The tails of the first i tokens, joined.
AbiTailsUpTo(toks, i) ==
    IF i = 0 THEN <<>> ELSE AbiTailsUpTo(toks, i - 1) \o AbiTail(toks[i])

\* ethers::abi::encode of a token list: the heads, then the tails.
AbiEncode(toks) ==
    [i \in 1..Len(toks) |-> AbiHead(toks, i)] \o AbiTailsUpTo(toks, Len(toks))

\* AbiEncode for Address and for U256: one word.
EncodeAddress(a) == AbiEncode(<<TAddress(a)>>)

EncodeU256(n) == AbiEncode(<<TUint(n)>>)

\* UserOperation::default(): what #[derive(Default)] gives.
UserOperationDefault ==
    [ sender |-> 0, nonce |-> 0, factory |-> 0, factory_data |-> <<>>,
      call_data |-> <<>>, call_gas_limit |-> 0, verification_gas_limit |-> 0,
      pre_verification_gas |-> 0, max_fee_per_gas |-> 0,
      max_priority_fee_per_gas |-> 0, paymaster |-> <<>>,
      paymaster_verification_gas_limit |-> 0,
      paymaster_post_op_gas_limit |-> 0, paymaster_data |-> <<>>,
      signature |-> <<>> ]

\* A conversion that copies the wrong gas limit.
UserOperationUnsigned_wrong_copy(value) ==
    [ sender |-> value.sender,
      nonce |-> value.nonce,
      factory |-> value.factory,
      factory_data |-> Raw(value.factory_data),
      call_data |-> WordsBytes(<<keccak256(Raw(value.call_data))>>),
      call_gas_limit |-> value.call_gas_limit,
      verification_gas_limit |-> value.verification_gas_limit,
      pre_verification_gas |-> value.pre_verification_gas,
      max_fee_per_gas |-> value.max_fee_per_gas,
      max_priority_fee_per_gas |-> value.max_priority_fee_per_gas,
      paymaster |-> Raw(value.paymaster),
      paymaster_verification_gas_limit |->
          value.paymaster_verification_gas_limit,
      paymaster_post_op_gas_limit |-> value.paymaster_verification_gas_limit,
      paymaster_data |-> Raw(value.paymaster_data) ]

\* From<UserOperation> for UserOperationUnsigned: the signature is dropped
\* and call_data becomes the 32 bytes of its digest.  The byte fields are
\* held in encoded form.
UserOperationUnsigned(value) ==
    [ sender |-> value.sender,
      nonce |-> value.nonce,
      factory |-> value.factory,
      factory_data |-> Raw(value.factory_data),
      call_data |-> WordsBytes(<<keccak256(Raw(value.call_data))>>),
      call_gas_limit |-> value.call_gas_limit,
      verification_gas_limit |-> value.verification_gas_limit,
      pre_verification_gas |-> value.pre_verification_gas,
      max_fee_per_gas |-> value.max_fee_per_gas,
      max_priority_fee_per_gas |-> value.max_priority_fee_per_gas,
      paymaster |-> Raw(value.paymaster),
      paymaster_verification_gas_limit |->
          value.paymaster_verification_gas_limit,
      paymaster_post_op_gas_limit |-> value.paymaster_post_op_gas_limit,
      paymaster_data |-> Raw(value.paymaster_data) ]

\* #[derive(EthAbiType)] on UserOperationUnsigned: its fields as tokens, in
\* declaration order.
UnsignedTokens(u) ==
    << TAddress(u.sender), TUint(u.nonce), TAddress(u.factory),
       TBytes(u.factory_data), TBytes(u.call_data), TUint(u.call_gas_limit),
       TUint(u.verification_gas_limit), TUint(u.pre_verification_gas),
       TUint(u.max_fee_per_gas), TUint(u.max_priority_fee_per_gas),
       TString(u.paymaster), TUint(u.paymaster_verification_gas_limit),
       TUint(u.paymaster_post_op_gas_limit), TBytes(u.paymaster_data) >>

\* #[derive(EthAbiType)] on UserOperation: all fifteen fields.
OperationTokens(o) ==
    << TAddress(o.sender), TUint(o.nonce), TAddress(o.factory),
       TBytes(Raw(o.factory_data)), TBytes(Raw(o.call_data)),
       TUint(o.call_gas_limit), TUint(o.verification_gas_limit),
       TUint(o.pre_verification_gas), TUint(o.max_fee_per_gas),
       TUint(o.max_priority_fee_per_gas), TString(Raw(o.paymaster)),
       TUint(o.paymaster_verification_gas_limit),
       TUint(o.paymaster_post_op_gas_limit), TBytes(Raw(o.paymaster_data)),
       TBytes(Raw(o.signature)) >>

\* UserOperation::pack
pack(self) == WordsBytes(AbiEncode(OperationTokens(self)))

\* UserOperation::pack_without_signature
pack_without_signature(self) ==
    WordsBytes(AbiEncode(UnsignedTokens(UserOperationUnsigned(self))))

\* A hash over the full packing, signature included.
hash_of_pack(self, entry_point, chain_id) ==
    keccak256(WordsBytes(<<keccak256(pack(self))>>
                         \o EncodeAddress(entry_point)
                         \o EncodeU256(chain_id)))

\* A hash that digests once, without the inner digest.
hash_single(self, entry_point, chain_id) ==
    keccak256(WordsBytes(pack_without_signature(self).words
                         \o EncodeAddress(entry_point)
                         \o EncodeU256(chain_id)))

\* UserOperation::hash: the digest of the 96 bytes made of the digest of the
\* unsigned packing, the encoded entry point and the encoded chain id.
hash(self, entry_point, chain_id) ==
    keccak256(WordsBytes(<<keccak256(pack_without_signature(self))>>
                         \o EncodeAddress(entry_point)
                         \o EncodeU256(chain_id)))

\* The chained setters of UserOperation.
UserOperation_sender(self, v) == [self EXCEPT !.sender = v]

UserOperation_nonce(self, v) == [self EXCEPT !.nonce = v]

UserOperation_factory(self, v) == [self EXCEPT !.factory = v]

UserOperation_factory_data(self, v) == [self EXCEPT !.factory_data = v]

UserOperation_call_data(self, v) == [self EXCEPT !.call_data = v]

UserOperation_call_gas_limit(self, v) == [self EXCEPT !.call_gas_limit = v]

UserOperation_verification_gas_limit(self, v) ==
    [self EXCEPT !.verification_gas_limit = v]

UserOperation_pre_verification_gas(self, v) ==
    [self EXCEPT !.pre_verification_gas = v]

UserOperation_max_fee_per_gas(self, v) == [self EXCEPT !.max_fee_per_gas = v]

UserOperation_max_priority_fee_per_gas(self, v) ==
    [self EXCEPT !.max_priority_fee_per_gas = v]

UserOperation_paymaster(self, v) == [self EXCEPT !.paymaster = v]

UserOperation_paymaster_verification_gas_limit(self, v) ==
    [self EXCEPT !.paymaster_verification_gas_limit = v]

UserOperation_paymaster_post_op_gas_limit(self, v) ==
    [self EXCEPT !.paymaster_post_op_gas_limit = v]

UserOperation_paymaster_data(self, v) == [self EXCEPT !.paymaster_data = v]

UserOperation_signature(self, v) == [self EXCEPT !.signature = v]

\* The values the chained setters are given, per field type.
HashAddrs == {0, 1}

HashU256s == {0, 1}

HashBytes == {<<>>, <<0>>, <<1>>}

HashStrs == {<<>>, PaymasterNone}

\* The entry-point addresses and chain ids a hash is taken against.
EntryPoints == {1, 2}

ChainIds == {1, 2}

InitHash ==
    /\ hin = [i \in 1..2 |->
                [ op |-> UserOperationDefault,
                  entry_point |-> CHOOSE e \in EntryPoints : TRUE,
                  chain_id |-> CHOOSE c \in ChainIds : TRUE ]]
    /\ hout = [i \in 1..2 |-> None]
    /\ nmut = 0
    /\ BuilderIdle
    /\ ResponseIdle
    /\ FeeIdle
    /\ TransferIdle
    /\ AccountIdle
    /\ SignIdle
    /\ ConvertIdle
    /\ CallIdle

\* One change of the arguments of call i to a2: what hash returned on the
\* old arguments no longer stands for the new ones.
ChangeArgs(i, a2) ==
    /\ nmut < MaxMut
    /\ a2 # hin[i]
    /\ hin' = [hin EXCEPT ![i] = a2]
    /\ hout' = [hout EXCEPT ![i] = None]
    /\ nmut' = nmut + 1
    /\ UNCHANGED notHashVars

\* One chained-setter call on the operation of call i, yielding o2.
Chained(i, o2) == ChangeArgs(i, [hin[i] EXCEPT !.op = o2])

OpSender ==
    \E i \in 1..2 : \E v \in HashAddrs :
        Chained(i, UserOperation_sender(hin[i].op, v))

OpNonce ==
    \E i \in 1..2 : \E v \in HashU256s :
        Chained(i, UserOperation_nonce(hin[i].op, v))

OpFactory ==
    \E i \in 1..2 : \E v \in HashAddrs :
        Chained(i, UserOperation_factory(hin[i].op, v))

OpFactoryData ==
    \E i \in 1..2 : \E v \in HashBytes :
        Chained(i, UserOperation_factory_data(hin[i].op, v))

OpCallData ==
    \E i \in 1..2 : \E v \in HashBytes :
        Chained(i, UserOperation_call_data(hin[i].op, v))

OpCallGasLimit ==
    \E i \in 1..2 : \E v \in HashU256s :
        Chained(i, UserOperation_call_gas_limit(hin[i].op, v))

OpVerificationGasLimit ==
    \E i \in 1..2 : \E v \in HashU256s :
        Chained(i, UserOperation_verification_gas_limit(hin[i].op, v))

OpPreVerificationGas ==
    \E i \in 1..2 : \E v \in HashU256s :
        Chained(i, UserOperation_pre_verification_gas(hin[i].op, v))

OpMaxFeePerGas ==
    \E i \in 1..2 : \E v \in HashU256s :
        Chained(i, UserOperation_max_fee_per_gas(hin[i].op, v))

OpMaxPriorityFeePerGas ==
    \E i \in 1..2 : \E v \in HashU256s :
        Chained(i, UserOperation_max_priority_fee_per_gas(hin[i].op, v))

OpPaymaster ==
    \E i \in 1..2 : \E v \in HashStrs :
        Chained(i, UserOperation_paymaster(hin[i].op, v))

OpPaymasterVerificationGasLimit ==
    \E i \in 1..2 : \E v \in HashU256s :
        Chained(i, UserOperation_paymaster_verification_gas_limit(hin[i].op, v))

OpPaymasterPostOpGasLimit ==
    \E i \in 1..2 : \E v \in HashU256s :
        Chained(i, UserOperation_paymaster_post_op_gas_limit(hin[i].op, v))

OpPaymasterData ==
    \E i \in 1..2 : \E v \in HashBytes :
        Chained(i, UserOperation_paymaster_data(hin[i].op, v))

OpSignature ==
    \E i \in 1..2 : \E v \in HashBytes :
        Chained(i, UserOperation_signature(hin[i].op, v))

\* Call i is made against another entry point.
WithEntryPoint ==
    \E i \in 1..2 : \E e \in EntryPoints :
        ChangeArgs(i, [hin[i] EXCEPT !.entry_point = e])

\* Call i is made against another chain id.
WithChainId ==
    \E i \in 1..2 : \E c \in ChainIds :
        ChangeArgs(i, [hin[i] EXCEPT !.chain_id = c])

\* hash(&self, entry_point, chain_id), call i: the result is recorded, the
\* operation is not changed.
HashCall ==
    \E i \in 1..2 :
        /\ hout' = [hout EXCEPT ![i] =
                       Some(hash(hin[i].op, hin[i].entry_point,
                                 hin[i].chain_id))]
        /\ UNCHANGED <<hin, nmut>>
        /\ UNCHANGED notHashVars

NextHash ==
    \/ OpSender
    \/ OpNonce
    \/ OpFactory
    \/ OpFactoryData
    \/ OpCallData
    \/ OpCallGasLimit
    \/ OpVerificationGasLimit
    \/ OpPreVerificationGas
    \/ OpMaxFeePerGas
    \/ OpMaxPriorityFeePerGas
    \/ OpPaymaster
    \/ OpPaymasterVerificationGasLimit
    \/ OpPaymasterPostOpGasLimit
    \/ OpPaymasterData
    \/ OpSignature
    \/ WithEntryPoint
    \/ WithChainId
    \/ HashCall

SpecHash == InitHash /\ [][NextHash]_vars

(***************************************************************************)
(* Properties of the hash                                                  *)
(***************************************************************************)

\* Both hash calls have returned on their current arguments.
BothHashed == hout[1] # None /\ hout[2] # None

\* The fields two operations differ in.
DifferingFields(a, b) == {f \in Fields : a[f] # b[f]}

\* The two calls have the same arguments, the signature set aside.
SameUnsignedArgs ==
    /\ DifferingFields(hin[1].op, hin[2].op) \subseteq {"signature"}
    /\ hin[1].entry_point = hin[2].entry_point
    /\ hin[1].chain_id = hin[2].chain_id

\* The byte string a digest was taken of.
Preimage(digest) == digest[2]

\* C3: two hash calls whose operations agree on every field but the
\* signature, against the same entry point and chain id, return the same
\* hash.
C3_HashIgnoresSignature ==
    (BothHashed /\ SameUnsignedArgs) => hout[1] = hout[2]

\* Two operations that differ in their signature only have been hashed.
C3_Witness ==
    /\ BothHashed
    /\ SameUnsignedArgs
    /\ hin[1].op.signature # hin[2].op.signature

\* C4: two hash calls whose arguments differ in a non-signature field of the
\* operation, in the entry point or in the chain id digest different bytes:
\* the 96-byte preimages of the two hashes differ (and so do the hashes, the
\* digest being collision-free); operations that differ in a non-signature
\* field have different unsigned packings.
C4_HashBindsEveryInput ==
    (BothHashed /\ ~SameUnsignedArgs) =>
        /\ Preimage(hout[1][1]) # Preimage(hout[2][1])
        /\ hout[1] # hout[2]
        /\ (DifferingFields(hin[1].op, hin[2].op) \ {"signature"} # {}) =>
              Preimage(Preimage(hout[1][1]).words[1])
                  # Preimage(Preimage(hout[2][1]).words[1])

\* Two operations that differ in two byte fields, under different chain ids,
\* have been hashed.
C4_Witness ==
    /\ BothHashed
    /\ hin[1].op.factory_data # hin[2].op.factory_data
    /\ hin[1].op.paymaster_data # hin[2].op.paymaster_data
    /\ hout[1] # hout[2]

\* The number of 32-byte words a byte value of n bytes is padded to.
DataWords(b) == (Len(b) + 31) \div 32

\* The unsigned packing P of operation o is laid out as the ABI encoding of
\* the fourteen non-signature fields in declaration order, call_data being
\* the 32 bytes of its digest.
UnsignedLayout(P, o) ==
    LET off4 == 32 * 14
        off5 == off4 + 32 * (1 + DataWords(o.factory_data))
        off11 == off5 + 32 * 2
        off14 == off11 + 32 * (1 + DataWords(o.paymaster))
        end == off14 + 32 * (1 + DataWords(o.paymaster_data))
        At(off) == (off \div 32) + 1
    IN  /\ P.len = end
        /\ Len(P.words) = end \div 32
        /\ P.words[1] = Word(o.sender)
        /\ P.words[2] = Word(o.nonce)
        /\ P.words[3] = Word(o.factory)
        /\ P.words[4] = Word(off4)
        /\ P.words[5] = Word(off5)
        /\ P.words[6] = Word(o.call_gas_limit)
        /\ P.words[7] = Word(o.verification_gas_limit)
        /\ P.words[8] = Word(o.pre_verification_gas)
        /\ P.words[9] = Word(o.max_fee_per_gas)
        /\ P.words[10] = Word(o.max_priority_fee_per_gas)
        /\ P.words[11] = Word(off11)
        /\ P.words[12] = Word(o.paymaster_verification_gas_limit)
        /\ P.words[13] = Word(o.paymaster_post_op_gas_limit)
        /\ P.words[14] = Word(off14)
        /\ P.words[At(off4)] = Word(Len(o.factory_data))
        /\ SubSeq(P.words, At(off4) + 1, At(off5) - 1) = Raw(o.factory_data).words
        /\ P.words[At(off5)] = Word(32)
        /\ P.words[At(off5) + 1] = keccak256(Raw(o.call_data))
        /\ (o.call_data = <<>>) =>
              P.words[At(off5) + 1] = keccak256([len |-> 0, words |-> <<>>])
        /\ P.words[At(off5) + 1] # Word(0)
        /\ P.words[At(off11)] = Word(Len(o.paymaster))
        /\ SubSeq(P.words, At(off11) + 1, At(off14) - 1) = Raw(o.paymaster).words
        /\ P.words[At(off14)] = Word(Len(o.paymaster_data))
        /\ SubSeq(P.words, At(off14) + 1, At(end) - 1)
              = Raw(o.paymaster_data).words

\* C5: the hash is the digest of 96 bytes: the digest of the unsigned packing
\* (the fourteen non-signature fields in declaration order, call_data
\* replaced by its digest, which for an empty call_data is the digest of the
\* empty byte string), the encoded entry point, the encoded chain id.
C5_HashLayout ==
    \A i \in 1..2 :
        hout[i] # None =>
            LET outer == Preimage(hout[i][1])
            IN  /\ hout[i][1][1] = "keccak256"
                /\ outer.len = 96
                /\ Len(outer.words) = 3
                /\ outer.words[1][1] = "keccak256"
                /\ UnsignedLayout(Preimage(outer.words[1]), hin[i].op)
                /\ outer.words[2] = Word(hin[i].entry_point)
                /\ outer.words[3] = Word(hin[i].chain_id)

\* An operation with an empty call_data and a non-empty factory_data has
\* been hashed.
C5_Witness ==
    /\ hout[1] # None
    /\ hin[1].op.call_data = <<>>
    /\ hin[1].op.factory_data # <<>>
    /\ hin[1].op.nonce # 0

(***************************************************************************)
(* Bundler client: relay responses (src/src/userop_middleware.rs)          *)
(*                                                                         *)
(* A text is a sequence of characters, each a one-character string; the    *)
(* character "U+0663" is the Arabic-Indic digit three, a decimal digit     *)
(* that is not an ASCII digit.  A u64 is written as its decimal digits     *)
(* without leading zeros.                                                  *)
(***************************************************************************)

\* The literal parts of the pattern
\* "Call gas limit (\d+) is lower than call gas estimation (\d+)".
CallGasLimitPrefix ==
    << "C", "a", "l", "l", " ", "g", "a", "s", " ", "l", "i", "m", "i",
       "t", " " >>

CallGasLimitMiddle ==
    << " ", "i", "s", " ", "l", "o", "w", "e", "r", " ", "t", "h", "a",
       "n", " ", "c", "a", "l", "l", " ", "g", "a", "s", " ", "e", "s",
       "t", "i", "m", "a", "t", "i", "o", "n", " " >>

\* The literal parts of the pattern "Pre-verification gas (\d+) is lower
\* than calculated pre-verification gas (\d+)".
PreVerificationPrefix ==
    << "P", "r", "e", "-", "v", "e", "r", "i", "f", "i", "c", "a", "t",
       "i", "o", "n", " ", "g", "a", "s", " " >>

PreVerificationMiddle ==
    << " ", "i", "s", " ", "l", "o", "w", "e", "r", " ", "t", "h", "a",
       "n", " ", "c", "a", "l", "c", "u", "l", "a", "t", "e", "d", " ",
       "p", "r", "e", "-", "v", "e", "r", "i", "f", "i", "c", "a", "t",
       "i", "o", "n", " ", "g", "a", "s", " " >>

\* The text error_message.contains looks for.
AA40Text ==
    << "A", "A", "4", "0", " ", "o", "v", "e", "r", " ", "v", "e", "r",
       "i", "f", "i", "c", "a", "t", "i", "o", "n", "G", "a", "s", "L",
       "i", "m", "i", "t" >>

\* u64::MAX, 2^64 - 1.
U64MaxDigits ==
    << "1", "8", "4", "4", "6", "7", "4", "4", "0", "7", "3", "7", "0",
       "9", "5", "5", "1", "6", "1", "5" >>

AsciiDigits == {"0", "1", "2", "3", "4", "5", "6", "7", "8", "9"}

\* \d of the regex crate: any Unicode decimal digit.
IsDigit(c) == c \in AsciiDigits \cup {"U+0663"}

\* The value of an ASCII digit.
DigitValue(c) ==
    CASE c = "0" -> 0 [] c = "1" -> 1 [] c = "2" -> 2 [] c = "3" -> 3
      [] c = "4" -> 4 [] c = "5" -> 5 [] c = "6" -> 6 [] c = "7" -> 7
      [] c = "8" -> 8 [] c = "9" -> 9

\* The literal lit stands in text at position i.
LitAt(text, i, lit) ==
    /\ i + Len(lit) - 1 <= Len(text)
    /\ SubSeq(text, i, i + Len(lit) - 1) = lit

\* The length of the longest run of digits of text that starts at i.
DigitRun(text, i) ==
    CHOOSE n \in 0..(Len(text) - i + 1) :
        /\ \A k \in 0..(n - 1) : IsDigit(text[i + k])
        /\ i + n > Len(text) \/ ~IsDigit(text[i + n])

\* The pattern "prefix(\d+)middle(\d+)" matches text from position i on.
\* Each group is greedy and takes the whole run of digits: the character
\* after the first group must be the first one of middle, which is no digit.
MatchesAt(text, i, prefix, middle) ==
    /\ LitAt(text, i, prefix)
    /\ DigitRun(text, i + Len(prefix)) >= 1
    /\ LitAt(text, i + Len(prefix) + DigitRun(text, i + Len(prefix)), middle)
    /\ DigitRun(text, i + Len(prefix) + DigitRun(text, i + Len(prefix))
                      + Len(middle)) >= 1

\* Regex::captures: the two groups of the leftmost match, or None.
captures(text, prefix, middle) ==
    LET starts == {i \in 1..Len(text) : MatchesAt(text, i, prefix, middle)}
        i == CHOOSE x \in starts : \A y \in starts : x <= y
        j == i + Len(prefix)
        d1 == DigitRun(text, j)
        k == j + d1 + Len(middle)
        d2 == DigitRun(text, k)
    IN  IF starts = {} THEN None
        ELSE Some(<< SubSeq(text, j, j + d1 - 1), SubSeq(text, k, k + d2 - 1) >>)

\* str::contains
contains(text, lit) == \E i \in 1..Len(text) : LitAt(text, i, lit)

\* Decimal digits without their leading zeros ("0" for zero).
StripZeros(ds) ==
    LET nz == {i \in 1..Len(ds) : ds[i] # "0"}
        first == CHOOSE i \in nz : \A j \in nz : i <= j
    IN  IF nz = {} THEN <<"0">> ELSE SubSeq(ds, first, Len(ds))

\* a < b for two digit sequences of the same length.
DigitsLess(a, b) ==
    \E i \in 1..Len(a) :
        /\ SubSeq(a, 1, i - 1) = SubSeq(b, 1, i - 1)
        /\ DigitValue(a[i]) < DigitValue(b[i])

\* str::parse::<u64> on a run of digits: None when a digit is not an ASCII
\* digit or the number exceeds u64::MAX, the number otherwise.
parse_u64(ds) ==
    IF \E i \in 1..Len(ds) : ds[i] \notin AsciiDigits THEN None
    ELSE IF \/ Len(StripZeros(ds)) > Len(U64MaxDigits)
            \/ /\ Len(StripZeros(ds)) = Len(U64MaxDigits)
               /\ DigitsLess(U64MaxDigits, StripZeros(ds))
        THEN None
    ELSE Some(StripZeros(ds))

\* What a client call returns.
OkResult(v) == [tag |-> "Ok", value |-> v]

ErrResult(e) == [tag |-> "Err", err |-> e]

\* The call does not return: a panic unwinds out of it.
Panicked == [tag |-> "Panic"]

\* UserOpMiddlewareError
CallGasLimitError(a, b) == [error |-> "CallGasLimitError", first |-> a, second |-> b]

PreVerificationGasError(a, b) ==
    [error |-> "PreVerificationGasError", first |-> a, second |-> b]

VerificationGasLimitError == [error |-> "VerificationGasLimitError"]

UnknownError == [error |-> "UnknownError"]

\* The errors of the libraries: serde_json / reqwest decoding, the transport.
DeserializeError == [error |-> "Deserialize"]

TransportError == [error |-> "Transport"]

\* serde_json::from_str::<Response<R>>: a JSON object with a string jsonrpc,
\* an unsigned id and a result that deserializes as R; other members are
\* ignored.
ParsesAsResponse(body) ==
    /\ body.json = "object"
    /\ body.jsonrpc = "ok"
    /\ body.id = "ok"
    /\ body.result = "ok"

\* serde_json::from_str::<ErrorResponse>: a JSON object with a string
\* jsonrpc, an unsigned id and an error object with code and message.
ParsesAsErrorResponse(body) ==
    /\ body.json = "object"
    /\ body.jsonrpc = "ok"
    /\ body.id = "ok"
    /\ body.error.kind = "ok"

\* The tail of handle_response: the classification of error.message.
Classify(error_message) ==
    LET call == captures(error_message, CallGasLimitPrefix, CallGasLimitMiddle)
        pre == captures(error_message, PreVerificationPrefix,
                        PreVerificationMiddle)
    IN  IF call # None
        THEN IF parse_u64(call[1][1]) = None THEN Panicked
             ELSE IF parse_u64(call[1][2]) = None THEN Panicked
             ELSE ErrResult(CallGasLimitError(parse_u64(call[1][1])[1],
                                              parse_u64(call[1][2])[1]))
        ELSE IF pre # None
        THEN IF parse_u64(pre[1][1]) = None THEN Panicked
             ELSE IF parse_u64(pre[1][2]) = None THEN Panicked
             ELSE ErrResult(PreVerificationGasError(parse_u64(pre[1][1])[1],
                                                    parse_u64(pre[1][2])[1]))
        ELSE IF contains(error_message, AA40Text)
        THEN ErrResult(VerificationGasLimitError)
        ELSE ErrResult(UnknownError)

\* handle_response with a body that parses as neither envelope reported as
\* UnknownError.
handle_response_swallow(body) ==
    IF ParsesAsResponse(body) THEN OkResult([kind |-> "Response"])
    ELSE IF ~ParsesAsErrorResponse(body) THEN ErrResult(UnknownError)
    ELSE Classify(body.error.message)

\* UserOpMiddleware::handle_response, from the body text on.
handle_response(body) ==
    IF ParsesAsResponse(body) THEN OkResult([kind |-> "Response"])
    ELSE IF ~ParsesAsErrorResponse(body) THEN ErrResult(DeserializeError)
    ELSE Classify(body.error.message)

\* reqwest's Response::json::<Response<R>>() followed by Ok(response.result).
json_Response(body) ==
    IF ParsesAsResponse(body) THEN OkResult([kind |-> "Result"])
    ELSE ErrResult(DeserializeError)

\* reqwest's Response::json::<JsonRpcResponse<Value>>(): result and error are
\* optional, an absent member reads as None, any JSON value is a result.
json_JsonRpcResponse(body) ==
    IF /\ body.json = "object"
       /\ body.jsonrpc = "ok"
       /\ body.id = "ok"
       /\ body.error.kind # "bad"
    THEN OkResult([kind |-> "JsonRpcResponse",
                   result |-> IF body.result = "absent" THEN "None" ELSE "Some",
                   error |-> IF body.error.kind = "absent" THEN "None" ELSE "Some"])
    ELSE ErrResult(DeserializeError)

\* What each operation returns when the relay gives the answer a.
estimate_user_operation_gas(a) ==
    IF a.transport # "ok" THEN ErrResult(TransportError)
    ELSE handle_response(a.body)

send_user_operation(a) ==
    IF a.transport # "ok" THEN ErrResult(TransportError)
    ELSE handle_response(a.body)

get_user_operation_receipt(a) ==
    IF a.transport # "ok" THEN ErrResult(TransportError)
    ELSE json_Response(a.body)

get_user_operation_by_hash(a) ==
    IF a.transport # "ok" THEN ErrResult(TransportError)
    ELSE json_Response(a.body)

ask_supported_entry_point(a) ==
    IF a.transport # "ok" THEN ErrResult(TransportError)
    ELSE IF ~a.success THEN ErrResult([error |-> "HttpStatus"])
    ELSE json_JsonRpcResponse(a.body)

(***************************************************************************)
(* The relay.  An answer is a transport outcome, an HTTP status and a      *)
(* body; the message of an error object is put together from parts, which  *)
(* record what the relay reports, and the client sees the text only.       *)
(***************************************************************************)
\* u64::MAX + 1
U64Overflow ==
    << "1", "8", "4", "4", "6", "7", "4", "4", "0", "7", "3", "7", "0",
       "9", "5", "5", "1", "6", "1", "6" >>

Numerals ==
    { <<"1", "0", "0">>, <<"2", "5", "0">>, <<"0", "0", "7">>,
      U64MaxDigits, U64Overflow, <<"1", "U+0663">> }

Separator == <<";", " ">>

CallGasPart(l, e) == [kind |-> "CallGasLimit", a |-> l, b |-> e, text |-> <<>>]

PreVerificationPart(p, c) ==
    [kind |-> "PreVerification", a |-> p, b |-> c, text |-> <<>>]

AA40Part == [kind |-> "AA40", a |-> <<>>, b |-> <<>>, text |-> <<>>]

TextPart(t) == [kind |-> "Text", a |-> <<>>, b |-> <<>>, text |-> t]

\* The text of one part.
RenderPart(part) ==
    CASE part.kind = "CallGasLimit" ->
            CallGasLimitPrefix \o part.a \o CallGasLimitMiddle \o part.b
      [] part.kind = "PreVerification" ->
            PreVerificationPrefix \o part.a \o PreVerificationMiddle \o part.b
      [] part.kind = "AA40" -> AA40Text
      [] part.kind = "Text" -> part.text

\* The message: the parts in order, separated.
RECURSIVE Render(_)
Render(parts) ==
    IF parts = <<>> THEN <<>>
    ELSE IF Len(parts) = 1 THEN RenderPart(parts[1])
    ELSE RenderPart(parts[1]) \o Separator \o Render(Tail(parts))

OtherTexts ==
    { <<"A", "A", "2", "1", " ", "d", "i", "d", "n", "'", "t", " ", "p", "a", "y", " ", "p", "r", "e", "f", "u", "n", "d">>,
      <<"C", "a", "l", "l", " ", "g", "a", "s", " ", "l", "i", "m", "i", "t", " ", " ", "i", "s", " ", "l", "o", "w", "e", "r", " ", "t", "h", "a", "n", " ", "c", "a", "l", "l", " ", "g", "a", "s", " ", "e", "s", "t", "i", "m", "a", "t", "i", "o", "n", " ", "9">>,
      <<"A", "A", "4", "0", " ", "o", "v", "e", "r", " ", "v", "e", "r", "i", "f", "i", "c", "a", "t", "i", "o", "n", "G", "a", "s", "l", "i", "m", "i", "t">> }

MessageParts ==
    {<<CallGasPart(l, e)>> : l \in Numerals, e \in Numerals}
    \cup {<<PreVerificationPart(p, c)>> : p \in Numerals, c \in Numerals}
    \cup {<<AA40Part>>, <<TextPart(<<"e", "r", "r", "o", "r">>), AA40Part>>}
    \cup {<<TextPart(t)>> : t \in OtherTexts}
    \cup { <<PreVerificationPart(<<"5">>, <<"6">>), CallGasPart(<<"3">>, <<"4">>)>>,
           <<AA40Part, CallGasPart(<<"3">>, <<"4">>)>>,
           <<AA40Part, PreVerificationPart(<<"5">>, <<"6">>)>>,
           <<AA40Part, PreVerificationPart(<<"5">>, <<"6">>),
             CallGasPart(<<"3">>, <<"4">>)>> }

ErrorMembers ==
    { [kind |-> "absent", parts |-> <<>>, message |-> <<>>],
      [kind |-> "bad", parts |-> <<>>, message |-> <<>>] }
    \cup {[kind |-> "ok", parts |-> ps, message |-> Render(ps)] : ps \in MessageParts}

Bodies ==
    [json : {"object"}, jsonrpc : {"ok", "absent"}, id : {"ok", "absent", "bad"},
     result : {"absent", "ok", "bad"}, error : ErrorMembers]
    \cup {[json |-> "invalid", jsonrpc |-> "absent", id |-> "absent",
           result |-> "absent",
           error |-> [kind |-> "absent", parts |-> <<>>, message |-> <<>>]]}

Answers ==
    [transport : {"ok"}, success : BOOLEAN, body : Bodies]
    \cup {[transport |-> "failed", success |-> FALSE,
           body |-> [json |-> "invalid", jsonrpc |-> "absent", id |-> "absent",
                     result |-> "absent",
                     error |-> [kind |-> "absent", parts |-> <<>>,
                                message |-> <<>>]]]}

InitResponse ==
    /\ answer \in Answers
    /\ rop = ""
    /\ rret = <<>>
    /\ BuilderIdle
    /\ HashIdle
    /\ FeeIdle
    /\ TransferIdle
    /\ AccountIdle
    /\ SignIdle
    /\ ConvertIdle
    /\ CallIdle

\* One call of an operation: the relay answers, the operation returns.
RelayCall(name, ret) ==
    /\ rop' = name
    /\ rret' = ret
    /\ UNCHANGED answer
    /\ UNCHANGED notResponseVars

EstimateUserOperationGas ==
    RelayCall("estimate_user_operation_gas", estimate_user_operation_gas(answer))

SendUserOperation ==
    RelayCall("send_user_operation", send_user_operation(answer))

GetUserOperationReceipt ==
    RelayCall("get_user_operation_receipt", get_user_operation_receipt(answer))

GetUserOperationByHash ==
    RelayCall("get_user_operation_by_hash", get_user_operation_by_hash(answer))

AskSupportedEntryPoint ==
    RelayCall("ask_supported_entry_point", ask_supported_entry_point(answer))

NextResponse ==
    \/ EstimateUserOperationGas
    \/ SendUserOperation
    \/ GetUserOperationReceipt
    \/ GetUserOperationByHash
    \/ AskSupportedEntryPoint

SpecResponse == InitResponse /\ [][NextResponse]_vars

(***************************************************************************)
(* Properties of the relay calls.                                          *)
(***************************************************************************)
\* The call made last went through handle_response.
ThroughHandleResponse ==
    rop \in {"estimate_user_operation_gas", "send_user_operation"}

\* The relay answered with an error envelope that is not a success envelope.
ErrorEnvelope ==
    /\ answer.transport = "ok"
    /\ ~ParsesAsResponse(answer.body)
    /\ ParsesAsErrorResponse(answer.body)

HasPart(kind) ==
    \E i \in 1..Len(answer.body.error.parts) : answer.body.error.parts[i].kind = kind

\* The category the priority order gives to the relay's message.
ExpectedCategory ==
    IF HasPart("CallGasLimit") THEN "CallGasLimitError"
    ELSE IF HasPart("PreVerification") THEN "PreVerificationGasError"
    ELSE IF HasPart("AA40") THEN "VerificationGasLimitError"
    ELSE "UnknownError"

Taxonomy ==
    {"CallGasLimitError", "PreVerificationGasError",
     "VerificationGasLimitError", "UnknownError"}

\* The call returned an error of the taxonomy.
Classified == rret.tag = "Err" /\ rret.err.error \in Taxonomy

\* C6: a body that is an error envelope and no success envelope makes
\* handle_response return the one category the priority order names, and a
\* success envelope is returned unclassified.
C6_ClassifiedByPriority ==
    ThroughHandleResponse /\ answer.transport = "ok" =>
        /\ ErrorEnvelope =>
              /\ rret.tag = "Err"
              /\ rret.err.error = ExpectedCategory
        /\ ParsesAsResponse(answer.body) => rret.tag = "Ok"

\* The first part of the given kind in the relay's message.
PartOf(kind) ==
    LET ps == answer.body.error.parts
        i == CHOOSE x \in 1..Len(ps) :
                 /\ ps[x].kind = kind
                 /\ \A y \in 1..(x - 1) : ps[y].kind # kind
    IN  ps[i]

\* The digits ds write the number v (v without leading zeros).
WritesNumber(ds, v) ==
    /\ Len(v) <= Len(ds)
    /\ SubSeq(ds, Len(ds) - Len(v) + 1, Len(ds)) = v
    /\ \A i \in 1..(Len(ds) - Len(v)) : ds[i] = "0"
    /\ v = <<"0">> \/ v[1] # "0"

\* C7: a call-gas message with numbers L and E yields CallGasLimitError(L, E),
\* a pre-verification message with P and C yields
\* PreVerificationGasError(P, C).
C7_GasErrorsCarryNumbersInOrder ==
    ThroughHandleResponse /\ ErrorEnvelope =>
        /\ HasPart("CallGasLimit") =>
              /\ rret.tag = "Err"
              /\ rret.err.error = "CallGasLimitError"
              /\ WritesNumber(PartOf("CallGasLimit").a, rret.err.first)
              /\ WritesNumber(PartOf("CallGasLimit").b, rret.err.second)
        /\ ~HasPart("CallGasLimit") /\ HasPart("PreVerification") =>
              /\ rret.tag = "Err"
              /\ rret.err.error = "PreVerificationGasError"
              /\ WritesNumber(PartOf("PreVerification").a, rret.err.first)
              /\ WritesNumber(PartOf("PreVerification").b, rret.err.second)

\* C8: whichever of the five operations received it, an error envelope
\* reaches the caller as an error of the taxonomy.
C8_EveryOperationClassifies ==
    rop # "" /\ ErrorEnvelope => Classified

\* C9: a body that is neither a success envelope nor an error envelope makes
\* handle_response return a deserialization error outside the taxonomy.
C9_UnparsableBodyIsDeserializeError ==
    /\ ThroughHandleResponse
    /\ answer.transport = "ok"
    /\ ~ParsesAsResponse(answer.body)
    /\ ~ParsesAsErrorResponse(answer.body)
    => /\ rret.tag = "Err"
       /\ rret.err = DeserializeError
       /\ rret.err.error \notin Taxonomy

C9_Witness ==
    /\ rop = "estimate_user_operation_gas"
    /\ answer.transport = "ok"
    /\ answer.body.json = "object"
    /\ answer.body.id = "bad"
    /\ answer.body.error.kind = "ok"
    /\ HasPart("AA40")
    /\ rret = ErrResult(DeserializeError)

\* C26: when the relay's message holds a call-gas or a pre-verification
\* sentence, whatever the size of its two numbers, handle_response returns an
\* error to the caller: the call does not end in a panic.
C26_GasNumbersOfAnySize ==
    /\ ThroughHandleResponse
    /\ ErrorEnvelope
    /\ HasPart("CallGasLimit") \/ HasPart("PreVerification")
    => rret.tag = "Err"

(***************************************************************************)
(* Fee sampling: get_gas_fee over the latest block.                        *)
(***************************************************************************)
\* A transaction qualifies when it carries both fee fields.
Qualifies(tx) == tx.max_fee_per_gas # None /\ tx.max_priority_fee_per_gas # None

\* The loop of get_gas_fee with every transaction counted, qualifying or not.
RECURSIVE FeeTotals_count_all(_, _)
FeeTotals_count_all(transactions, n) ==
    IF n = 0
    THEN [total_max_fee_per_gas |-> 0, total_max_priority_fee_per_gas |-> 0,
          tx_count |-> 0]
    ELSE LET acc == FeeTotals_count_all(transactions, n - 1)
             tx == transactions[n]
         IN  IF Qualifies(tx)
             THEN [total_max_fee_per_gas |->
                       acc.total_max_fee_per_gas + tx.max_fee_per_gas[1],
                   total_max_priority_fee_per_gas |->
                       acc.total_max_priority_fee_per_gas
                       + tx.max_priority_fee_per_gas[1],
                   tx_count |-> acc.tx_count + 1]
             ELSE [acc EXCEPT !.tx_count = @ + 1]

\* The loop of get_gas_fee over the first n transactions: the two totals and
\* the count.  The sums of the fees of a block of the model stay far below
\* 2^256.
RECURSIVE FeeTotals(_, _)
FeeTotals(transactions, n) ==
    IF n = 0
    THEN [total_max_fee_per_gas |-> 0, total_max_priority_fee_per_gas |-> 0,
          tx_count |-> 0]
    ELSE LET acc == FeeTotals(transactions, n - 1)
             tx == transactions[n]
         IN  IF Qualifies(tx)
             THEN [total_max_fee_per_gas |->
                       acc.total_max_fee_per_gas + tx.max_fee_per_gas[1],
                   total_max_priority_fee_per_gas |->
                       acc.total_max_priority_fee_per_gas
                       + tx.max_priority_fee_per_gas[1],
                   tx_count |-> acc.tx_count + 1]
             ELSE acc

\* UserOpMiddleware::get_gas_fee.  A failed provider call is returned as an
\* error; unwrap on an absent block and the division of a U256 by zero
\* panic.
get_gas_fee(l) ==
    IF ~l.number_ok THEN ErrResult([error |-> "Provider"])
    ELSE IF ~l.block_ok THEN ErrResult([error |-> "Provider"])
    ELSE IF l.block = None THEN Panicked
    ELSE LET t == FeeTotals(l.block[1], Len(l.block[1]))
         IN  IF t.tx_count = 0 THEN Panicked
             ELSE OkResult(<< t.total_max_fee_per_gas \div t.tx_count,
                              t.total_max_priority_fee_per_gas \div t.tx_count >>)

FeeValues == {2, 5}

OptionalFees == {None} \cup {Some(v) : v \in FeeValues}

Transactions ==
    [max_fee_per_gas : OptionalFees, max_priority_fee_per_gas : OptionalFees]

BlocksOfLen(n) == [1..n -> Transactions]

\* What the provider may report: a failed call, no block, or a block of at
\* most MaxTx transactions.
LatestBlocks ==
    { [number_ok |-> FALSE, block_ok |-> FALSE, block |-> None],
      [number_ok |-> TRUE, block_ok |-> FALSE, block |-> None],
      [number_ok |-> TRUE, block_ok |-> TRUE, block |-> None] }
    \cup { [number_ok |-> TRUE, block_ok |-> TRUE, block |-> Some(txs)] :
             txs \in UNION {BlocksOfLen(n) : n \in 0..MaxTx} }

InitFee ==
    /\ latest \in LatestBlocks
    /\ fret = <<>>
    /\ BuilderIdle
    /\ HashIdle
    /\ ResponseIdle
    /\ TransferIdle
    /\ AccountIdle
    /\ SignIdle
    /\ ConvertIdle
    /\ CallIdle

GetGasFee ==
    /\ fret' = get_gas_fee(latest)
    /\ UNCHANGED latest
    /\ UNCHANGED notFeeVars

NextFee == GetGasFee

SpecFee == InitFee /\ [][NextFee]_vars

\* The latest block exists and none of its transactions qualifies.
NoQualifyingTransaction ==
    /\ latest.number_ok
    /\ latest.block_ok
    /\ latest.block # None
    /\ \A i \in 1..Len(latest.block[1]) : ~Qualifies(latest.block[1][i])

\* C10: over a latest block without a qualifying transaction get_gas_fee
\* returns an error: it neither returns (0, 0) nor aborts.
C10_NoQualifyingTransactionIsError ==
    fret # <<>> /\ NoQualifyingTransaction => fret.tag = "Err"

\* The positions of the qualifying transactions of the latest block.
QualifyingIndices ==
    {i \in 1..Len(latest.block[1]) : Qualifies(latest.block[1][i])}

\* The sum of f[i] over the indices i of S.
RECURSIVE SumOver(_, _)
SumOver(S, f) ==
    IF S = {} THEN 0
    ELSE LET i == CHOOSE x \in S : TRUE
         IN  f[i] + SumOver(S \ {i}, f)

\* The fee of every qualifying transaction, by position.
MaxFees == [i \in QualifyingIndices |-> latest.block[1][i].max_fee_per_gas[1]]

MaxPriorityFees ==
    [i \in QualifyingIndices |-> latest.block[1][i].max_priority_fee_per_gas[1]]

\* C11: over a latest block with a qualifying transaction get_gas_fee returns
\* the floor of the mean of the max fees and of the max priority fees of the
\* qualifying transactions; the other transactions count for nothing.
C11_FeeAveragesOverQualifying ==
    /\ fret # <<>>
    /\ latest.number_ok
    /\ latest.block_ok
    /\ latest.block # None
    /\ ~NoQualifyingTransaction
    => fret = OkResult(<< SumOver(QualifyingIndices, MaxFees)
                              \div Cardinality(QualifyingIndices),
                          SumOver(QualifyingIndices, MaxPriorityFees)
                              \div Cardinality(QualifyingIndices) >>)

\* A block of three transactions, the second without a priority fee: the
\* means are over the other two and are rounded down.
C11_Witness ==
    /\ fret = OkResult(<<3, 3>>)
    /\ latest.block # None
    /\ Len(latest.block[1]) = 3
    /\ QualifyingIndices = {1, 3}
    /\ latest.block[1][2].max_fee_per_gas # None
    /\ latest.block[1][1].max_fee_per_gas = Some(2)
    /\ latest.block[1][3].max_fee_per_gas = Some(5)

(***************************************************************************)
(* The convenience path: uogen_send_eth.  Its awaits split it into steps;  *)
(* what the entry point, the relay and the provider answer is fixed in     *)
(* tenv when the call starts.                                              *)
(***************************************************************************)
\* The value put in the three gas limits and the two fees before estimation.
Placeholder == 1000000000

(***************************************************************************)
(* In get_nonce and calldata_gen_send_eth the addresses whose bytes are    *)
(* read (validator, to_address) are their twenty bytes, and a 256-bit      *)
(* integer is its 32 digits in base 256, the least significant first, so   *)
(* that every value below 2^256 has a form and the big-endian conversions  *)
(* are conversions.                                                        *)
(***************************************************************************)
\* U256::from of a natural of the model (below 2^31).
U256_from(n) ==
    [i \in 1..32 |-> IF i > 4 THEN 0 ELSE (n \div (256 ^ (i - 1))) % 256]

\* U256::from_big_endian of a slice of at most 32 bytes.
U256_from_big_endian(slice) ==
    [i \in 1..32 |-> IF i <= Len(slice) THEN slice[Len(slice) + 1 - i] ELSE 0]

\* U256::to_big_endian into a buffer of 32 bytes.
U256_to_big_endian(value) == [i \in 1..32 |-> value[33 - i]]

\* get_nonce with the validator in the last twenty bytes of the key, the way
\* an address is padded into a word.
get_nonce_right_aligned(env) ==
    LET padded_bytes ==
            [i \in 1..32 |-> IF i \in 13..32 THEN env.validator[i - 12] ELSE 0]
        validator_for_input == U256_from_big_endian(padded_bytes)
    IN  [query |-> [contract |-> env.entry_point_address,
                    method |-> "get_nonce",
                    args |-> <<env.sender, validator_for_input>>],
         ret |-> IF env.nonce = None THEN ErrResult([error |-> "Contract"])
                 ELSE OkResult(env.nonce[1])]

\* UserOpMiddleware::get_nonce: the query put to the entry point, and the
\* answer of its getNonce or the error of the call.  padded_bytes[8..28] are
\* the positions 9..28 here.
get_nonce(env) ==
    LET padded_bytes ==
            [i \in 1..32 |-> IF i \in 9..28 THEN env.validator[i - 8] ELSE 0]
        validator_for_input == U256_from_big_endian(padded_bytes)
    IN  [query |-> [contract |-> env.entry_point_address,
                    method |-> "get_nonce",
                    args |-> <<env.sender, validator_for_input>>],
         ret |-> IF env.nonce = None THEN ErrResult([error |-> "Contract"])
                 ELSE OkResult(env.nonce[1])]

\* The selector of execute(bytes32,bytes), the function of the account's
\* interface that calldata_gen_send_eth names.
ExecuteSelector == <<233, 174, 92, 83>>

\* The zero bytes that pad n bytes to whole words.
Padding(n) == [i \in 1..((32 - (n % 32)) % 32) |-> 0]

\* encode("execute", (word, data)) of the contract binding: the selector,
\* then the ABI encoding of a bytes32 and a bytes argument (the word, the
\* offset of the data, its length, the data padded to whole words).
encode(word, data) ==
    ExecuteSelector \o word \o BigEndian(64, 32) \o BigEndian(Len(data), 32)
        \o data \o Padding(Len(data))

\* calldata_gen_send_eth with the execution data handed back as it is.
calldata_gen_send_eth_unencoded(env, to_address, value) ==
    LET mode_code_single == [i \in 1..32 |-> 0]
        execution_calldata == to_address \o U256_to_big_endian(value) \o <<0>>
    IN  IF ~env.encode_ok THEN ErrResult([error |-> "Abi"])
        ELSE OkResult(mode_code_single \o execution_calldata)

\* UserOpMiddleware::calldata_gen_send_eth: the call execute(mode, execution)
\* of the account, the mode 32 zero bytes and the execution data the 20
\* bytes of the address, the 32 bytes of the value and one zero byte.  The
\* encoding fails when the account's interface, which is no source file,
\* has no such function.
calldata_gen_send_eth(env, to_address, value) ==
    LET mode_code_single == [i \in 1..32 |-> 0]
        execution_calldata == to_address \o U256_to_big_endian(value) \o <<0>>
    IN  IF ~env.encode_ok THEN ErrResult([error |-> "Abi"])
        ELSE OkResult(encode(mode_code_single, execution_calldata))

\* The partial operation before the estimation with a zero factory address
\* filled in.
PlaceholderOperation_zero_factory(sender, nonce, calldata) ==
    [sender |-> Some(sender),
     nonce |-> Some(nonce),
     factory |-> Some(AddressZero),
     factory_data |-> None,
     call_data |-> Some(calldata),
     call_gas_limit |-> Some(Placeholder),
     verification_gas_limit |-> Some(Placeholder),
     pre_verification_gas |-> Some(Placeholder),
     max_fee_per_gas |-> Some(Placeholder),
     max_priority_fee_per_gas |-> Some(Placeholder),
     paymaster |-> None,
     paymaster_verification_gas_limit |-> None,
     paymaster_post_op_gas_limit |-> None,
     paymaster_data |-> None,
     signature |-> Some(BytesDefault)]

\* The partial operation of uogen_send_eth before the estimation.
PlaceholderOperation(sender, nonce, calldata) ==
    [sender |-> Some(sender),
     nonce |-> Some(nonce),
     factory |-> None,
     factory_data |-> None,
     call_data |-> Some(calldata),
     call_gas_limit |-> Some(Placeholder),
     verification_gas_limit |-> Some(Placeholder),
     pre_verification_gas |-> Some(Placeholder),
     max_fee_per_gas |-> Some(Placeholder),
     max_priority_fee_per_gas |-> Some(Placeholder),
     paymaster |-> None,
     paymaster_verification_gas_limit |-> None,
     paymaster_post_op_gas_limit |-> None,
     paymaster_data |-> None,
     signature |-> Some(BytesDefault)]

\* The last statements of uogen_send_eth with the two fees left as filled.
Overwrite_limits_only(user_operation, estimated_gas, avg_gas_price) ==
    [user_operation EXCEPT
        !.call_gas_limit = Some(estimated_gas.call_gas_limit),
        !.verification_gas_limit = Some(estimated_gas.verification_gas_limit),
        !.pre_verification_gas = Some(estimated_gas.pre_verification_gas)]

\* The last statements of uogen_send_eth: the estimates and the averages
\* replace the five placeholders.
Overwrite(user_operation, estimated_gas, avg_gas_price) ==
    [user_operation EXCEPT
        !.call_gas_limit = Some(estimated_gas.call_gas_limit),
        !.verification_gas_limit = Some(estimated_gas.verification_gas_limit),
        !.pre_verification_gas = Some(estimated_gas.pre_verification_gas),
        !.max_fee_per_gas = Some(avg_gas_price[1]),
        !.max_priority_fee_per_gas = Some(avg_gas_price[2])]

\* The result member of a success envelope of eth_estimateUserOperationGas.
EstimateResults ==
    [call_gas_limit : {21000, Placeholder},
     verification_gas_limit : {30000, Placeholder},
     pre_verification_gas : {40000, Placeholder}]

NoErrorMember == [kind |-> "absent", parts |-> <<>>, message |-> <<>>]

RejectionParts ==
    { <<AA40Part>>,
      <<CallGasPart(<<"1", "0", "0">>, <<"2", "5", "0">>)>>,
      <<PreVerificationPart(<<"0", "0", "7">>, U64Overflow)>>,
      <<TextPart(<<"A", "A", "2", "1">>)>> }

\* The answers of the relay to the estimation request: a success envelope,
\* a rejection, a body that is no JSON, no answer at all.
TransferAnswers ==
    { [transport |-> "ok", success |-> TRUE,
       body |-> [json |-> "object", jsonrpc |-> "ok", id |-> "ok",
                 result |-> "ok", error |-> NoErrorMember]],
      [transport |-> "ok", success |-> TRUE,
       body |-> [json |-> "invalid", jsonrpc |-> "absent", id |-> "absent",
                 result |-> "absent", error |-> NoErrorMember]],
      [transport |-> "failed", success |-> FALSE,
       body |-> [json |-> "invalid", jsonrpc |-> "absent", id |-> "absent",
                 result |-> "absent", error |-> NoErrorMember]] }
    \cup { [transport |-> "ok", success |-> TRUE,
            body |-> [json |-> "object", jsonrpc |-> "ok", id |-> "ok",
                      result |-> "absent",
                      error |-> [kind |-> "ok", parts |-> ps,
                                 message |-> Render(ps)]]] :
             ps \in RejectionParts }

\* What the provider reports to the fee sampling: no block, or a block of at
\* most one transaction.
TransferBlocks ==
    {l \in LatestBlocks : l.block = None \/ Len(l.block[1]) <= 1}

TransferEnvs ==
    [sender : {1}, validator : {[i \in 1..20 |-> i]}, entry_point_address : {2},
     to_address : {[i \in 1..20 |-> 160 + i], [i \in 1..20 |-> 0]},
     value : {U256_from(0), U256_from(5)},
     nonce : {None, Some(0), Some(7)}, encode_ok : BOOLEAN,
     answer : TransferAnswers, estimate : EstimateResults,
     latest : TransferBlocks]

NoLocals ==
    [nonce |-> None, calldata |-> None, user_operation |-> None,
     estimated_gas |-> None, avg_gas_price |-> None]

InitTransfer ==
    /\ tenv \in TransferEnvs
    /\ tpc = "get_nonce"
    /\ tlog = <<>>
    /\ tlocals = NoLocals
    /\ tret = <<>>
    /\ BuilderIdle
    /\ HashIdle
    /\ ResponseIdle
    /\ FeeIdle
    /\ AccountIdle
    /\ SignIdle
    /\ ConvertIdle
    /\ CallIdle

\* One step of uogen_send_eth: the step is issued; it ends the call with
\* the result ret, or goes on at next with the locals.
TransferStep(step, ended, ret, next, locals) ==
    /\ tpc = step
    /\ tlog' = Append(tlog, step)
    /\ IF ended
       THEN tpc' = "done" /\ tret' = ret /\ UNCHANGED tlocals
       ELSE tpc' = next /\ tlocals' = locals /\ UNCHANGED tret
    /\ UNCHANGED tenv
    /\ UNCHANGED notTransferVars

\* let nonce = self.get_nonce().await?;
TransferGetNonce ==
    LET r == get_nonce(tenv).ret
    IN  TransferStep("get_nonce", r.tag # "Ok", r, "calldata_gen_send_eth",
                     [tlocals EXCEPT !.nonce = Some(r.value)])

\* let calldata = self.calldata_gen_send_eth(to_address, value).unwrap();
TransferCalldata ==
    LET r == calldata_gen_send_eth(tenv, tenv.to_address, tenv.value)
    IN  TransferStep("calldata_gen_send_eth", r.tag # "Ok", Panicked, "fill",
                     [tlocals EXCEPT !.calldata = Some(r.value)])

\* let mut user_operation = UserOperationPartial { .. };
TransferFill ==
    TransferStep("fill", FALSE, <<>>, "estimate_user_operation_gas",
                 [tlocals EXCEPT !.user_operation =
                     Some(PlaceholderOperation(tenv.sender, tlocals.nonce[1],
                                               tlocals.calldata[1]))])

\* let estimated_gas =
\*     self.estimate_user_operation_gas(&user_operation).await.unwrap();
TransferEstimate ==
    LET r == estimate_user_operation_gas(tenv.answer)
    IN  TransferStep("estimate_user_operation_gas", r.tag # "Ok", Panicked,
                     "get_gas_fee",
                     [tlocals EXCEPT !.estimated_gas = Some(tenv.estimate)])

\* let avg_gas_price = self.get_gas_fee().await?;
TransferGasFee ==
    LET r == get_gas_fee(tenv.latest)
    IN  TransferStep("get_gas_fee", r.tag # "Ok", r, "overwrite",
                     [tlocals EXCEPT !.avg_gas_price = Some(r.value)])

\* The five assignments and Ok(user_operation).
TransferOverwrite ==
    TransferStep("overwrite", TRUE,
                 OkResult(Overwrite(tlocals.user_operation[1],
                                    tlocals.estimated_gas[1],
                                    tlocals.avg_gas_price[1])),
                 "done", tlocals)

NextTransfer ==
    \/ TransferGetNonce
    \/ TransferCalldata
    \/ TransferFill
    \/ TransferEstimate
    \/ TransferGasFee
    \/ TransferOverwrite

SpecTransfer == InitTransfer /\ [][NextTransfer]_vars

(***************************************************************************)
(* Properties of uogen_send_eth.                                           *)
(***************************************************************************)
StepOrder ==
    << "get_nonce", "calldata_gen_send_eth", "fill",
       "estimate_user_operation_gas", "get_gas_fee", "overwrite" >>

\* The positions of the qualifying transactions of the block the provider
\* reports to uogen_send_eth.
SampledIndices ==
    {i \in 1..Len(tenv.latest.block[1]) : Qualifies(tenv.latest.block[1][i])}

\* The two means over the qualifying transactions, rounded down.
SampledAverages ==
    << SumOver(SampledIndices,
               [i \in SampledIndices |->
                    tenv.latest.block[1][i].max_fee_per_gas[1]])
           \div Cardinality(SampledIndices),
       SumOver(SampledIndices,
               [i \in SampledIndices |->
                    tenv.latest.block[1][i].max_priority_fee_per_gas[1]])
           \div Cardinality(SampledIndices) >>

\* C12: the steps are issued in the order nonce read, calldata, fill,
\* estimation, fee sampling, overwrite, each once and after the one before;
\* the partial operation returned holds the relay's three estimates and the
\* two sampled averages, and a placeholder only where one of these is it.
C12_StepsInOrderAndOverwritten ==
    /\ Len(tlog) <= Len(StepOrder)
    /\ tlog = SubSeq(StepOrder, 1, Len(tlog))
    /\ tret # <<>> /\ tret.tag = "Ok" =>
          /\ tlog = StepOrder
          /\ tret.value.call_gas_limit = Some(tenv.estimate.call_gas_limit)
          /\ tret.value.verification_gas_limit =
                 Some(tenv.estimate.verification_gas_limit)
          /\ tret.value.pre_verification_gas =
                 Some(tenv.estimate.pre_verification_gas)
          /\ tret.value.max_fee_per_gas = Some(SampledAverages[1])
          /\ tret.value.max_priority_fee_per_gas = Some(SampledAverages[2])
          /\ \A f \in {"call_gas_limit", "verification_gas_limit",
                       "pre_verification_gas"} :
                 tret.value[f] = Some(Placeholder) => tenv.estimate[f] = Placeholder
          /\ \A f \in {"max_fee_per_gas", "max_priority_fee_per_gas"} :
                 tret.value[f] # Some(Placeholder)

C12_Witness ==
    /\ tpc = "done"
    /\ tlog = StepOrder
    /\ tret.tag = "Ok"
    /\ tenv.estimate.call_gas_limit = 21000
    /\ tenv.estimate.pre_verification_gas = Placeholder
    /\ tret.value.call_gas_limit = Some(21000)
    /\ tret.value.pre_verification_gas = Some(Placeholder)
    /\ tret.value.max_fee_per_gas = Some(5)
    /\ tret.value.max_priority_fee_per_gas = Some(2)

\* The step issued last failed: the nonce read, the calldata encoding, the
\* estimation request or the fee sampling.
LastStepFailed ==
    /\ tlog # <<>>
    /\ \/ tlog[Len(tlog)] = "get_nonce" /\ tenv.nonce = None
       \/ tlog[Len(tlog)] = "calldata_gen_send_eth" /\ ~tenv.encode_ok
       \/ /\ tlog[Len(tlog)] = "estimate_user_operation_gas"
          /\ ~(tenv.answer.transport = "ok" /\ ParsesAsResponse(tenv.answer.body))
       \/ /\ tlog[Len(tlog)] = "get_gas_fee"
          /\ \/ ~tenv.latest.number_ok
             \/ ~tenv.latest.block_ok
             \/ tenv.latest.block = None
             \/ \A i \in 1..Len(tenv.latest.block[1]) :
                    ~Qualifies(tenv.latest.block[1][i])

\* C13: a failing step ends uogen_send_eth at once with an error result:
\* the call does not abort and no later step is issued.
C13_FailuresAreReturned ==
    LastStepFailed => tpc = "done" /\ tret.tag = "Err"

(***************************************************************************)
(* Whole builders.  A builder owns two boxes, its account binding and its  *)
(* factory binding; heap holds the boxes alive, by identity.               *)
(***************************************************************************)
SIMPLE_ACCOUNT_FACTORY == "0x9406Cc6185a346906296840746125a0E44976454"

MSA_FACTORY_SEPOLIA == "0xc1f3f2dBbe9498FE9A2Fd75dEa6507A57033fe42"

GETH_SIMPLE_ACCOUNT_FACTORY == "0xe7f1725e7734ce288f8367e1bb143e90bb3f0512"

\* WalletRegistry::from_str
WalletRegistry_from_str(s) ==
    CASE s = "simple-account" -> OkResult("SimpleAccount")
      [] s = "simple-account-test" -> OkResult("SimpleAccount")
      [] s = "msa-basic-account" -> OkResult("MSABasicAccount")
      [] OTHER -> ErrResult([error |-> "wallet currently not supported",
                             label |-> s])

\* WalletFactoryAddresses::from_str with a factory for every label.
WalletFactoryAddresses_from_str_any(s) ==
    CASE s = "simple-account" ->
            OkResult([variant |-> "SimpleAccountFactoryAddress",
                      address |-> SIMPLE_ACCOUNT_FACTORY])
      [] s = "simple-account-test" ->
            OkResult([variant |-> "SimpleAccountFactoryAddress",
                      address |-> GETH_SIMPLE_ACCOUNT_FACTORY])
      [] s = "msa-account-sepolia" ->
            OkResult([variant |-> "MSABasicFactoryAddress",
                      address |-> MSA_FACTORY_SEPOLIA])
      [] OTHER ->
            OkResult([variant |-> "SimpleAccountFactoryAddress",
                      address |-> SIMPLE_ACCOUNT_FACTORY])

\* WalletFactoryAddresses::from_str
WalletFactoryAddresses_from_str(s) ==
    CASE s = "simple-account" ->
            OkResult([variant |-> "SimpleAccountFactoryAddress",
                      address |-> SIMPLE_ACCOUNT_FACTORY])
      [] s = "simple-account-test" ->
            OkResult([variant |-> "SimpleAccountFactoryAddress",
                      address |-> GETH_SIMPLE_ACCOUNT_FACTORY])
      [] s = "msa-account-sepolia" ->
            OkResult([variant |-> "MSABasicFactoryAddress",
                      address |-> MSA_FACTORY_SEPOLIA])
      [] OTHER -> ErrResult([error |-> "factory not supported", label |-> s])

\* UserOperationBuilder::match_wallet: the factory lookup, then the account
\* lookup; the account object is made at the factory's address.
match_wallet(wallet_name) ==
    LET fa == WalletFactoryAddresses_from_str(wallet_name)
        wr == WalletRegistry_from_str(wallet_name)
    IN  IF fa.tag = "Err" THEN fa
        ELSE IF wr.tag = "Err" THEN wr
        ELSE OkResult(
            [factory_variant |->
                 IF fa.value.variant = "SimpleAccountFactoryAddress"
                 THEN "SimpleAccountFactory" ELSE "MSABasicFactory",
             factory_object |->
                 [type |-> IF fa.value.variant = "SimpleAccountFactoryAddress"
                           THEN "SimpleAccountFactory" ELSE "MSAFactory",
                  address |-> fa.value.address],
             factory_address |-> fa.value.address,
             wallet_object |->
                 [type |-> IF wr.value = "SimpleAccount"
                           THEN "SimpleAccount" ELSE "MSABasic",
                  address |-> fa.value.address]])

\* No box yet.
EmptyHeap == [next |-> 1, cells |-> <<>>]

\* Box::new: a new box holding obj.
Alloc(h, obj) ==
    [heap |-> [next |-> h.next + 1, cells |-> (h.next :> obj) @@ h.cells],
     id |-> h.next]

\* The drop of a box.
Free(h, id) ==
    [h EXCEPT !.cells = [i \in (DOMAIN h.cells) \ {id} |-> h.cells[i]]]

\* UserOperationBuilder::new
UserOperationBuilder_new(h, eoa_wallet_address, wallet_name, scw_address, salt) ==
    LET m == match_wallet(wallet_name)
        fbox == Alloc(h, m.value.factory_object)
        wbox == Alloc(fbox.heap, m.value.wallet_object)
    IN  IF m.tag = "Err" THEN [heap |-> h, ret |-> m]
        ELSE [heap |-> wbox.heap,
              ret |-> OkResult(
                  [factory_contract |->
                       [variant |-> m.value.factory_variant, box |-> fbox.id],
                   factory_address |-> m.value.factory_address,
                   wallet_contract |-> wbox.id,
                   scw_address |-> scw_address,
                   signer_address |-> eoa_wallet_address,
                   salt |-> salt,
                   uo |-> new,
                   uo_hash |-> None])]

\* UserOperationBuilder::from_uo
UserOperationBuilder_from_uo(h, p, wallet_name) ==
    LET made == UserOperationBuilder_new(h, AddressZero, wallet_name, None, None)
    IN  IF made.ret.tag = "Err" THEN made
        ELSE [heap |-> made.heap,
              ret |-> OkResult([made.ret.value EXCEPT !.uo = set_uo(@, p)])]

\* clone_box with the box itself handed out instead of a copy.
clone_box_shared(h, id) == [heap |-> h, id |-> id]

\* clone_box of the four capability implementations: Box::new(self.clone()).
clone_box(h, id) == Alloc(h, h.cells[id])

\* Clone for WalletFactoryRegistry
WalletFactoryRegistry_clone(h, fc) ==
    LET c == clone_box(h, fc.box)
    IN  [heap |-> c.heap, value |-> [variant |-> fc.variant, box |-> c.id]]

\* Clone for UserOperationBuilder
clone(h, self) ==
    LET fc == WalletFactoryRegistry_clone(h, self.factory_contract)
        wc == clone_box(fc.heap, self.wallet_contract)
    IN  [heap |-> wc.heap,
         value |-> [self EXCEPT !.factory_contract = fc.value,
                                !.wallet_contract = wc.id]]

\* set_wallet with the stored counterfactual address forgotten before the
\* label is looked up.
set_wallet_clears_before_lookup(h, self, wallet_name) ==
    LET m == match_wallet(wallet_name)
        fbox == Alloc(h, m.value.factory_object)
        wbox == Alloc(fbox.heap, m.value.wallet_object)
    IN  IF m.tag = "Err"
        THEN [heap |-> h, builder |-> [self EXCEPT !.scw_address = None],
              ret |-> m]
        ELSE [heap |-> Free(Free(wbox.heap, self.wallet_contract),
                            self.factory_contract.box),
              builder |->
                  [self EXCEPT
                      !.wallet_contract = wbox.id,
                      !.factory_contract =
                          [variant |-> m.value.factory_variant, box |-> fbox.id],
                      !.factory_address = m.value.factory_address],
              ret |-> RetSelf]

\* set_wallet with the stored counterfactual address forgotten.
set_wallet_forgets_address(h, self, wallet_name) ==
    LET m == match_wallet(wallet_name)
        fbox == Alloc(h, m.value.factory_object)
        wbox == Alloc(fbox.heap, m.value.wallet_object)
    IN  IF m.tag = "Err" THEN [heap |-> h, builder |-> self, ret |-> m]
        ELSE [heap |-> Free(Free(wbox.heap, self.wallet_contract),
                            self.factory_contract.box),
              builder |->
                  [self EXCEPT
                      !.wallet_contract = wbox.id,
                      !.factory_contract =
                          [variant |-> m.value.factory_variant, box |-> fbox.id],
                      !.factory_address = m.value.factory_address,
                      !.scw_address = None],
              ret |-> RetSelf]

\* UserOperationBuilder::set_wallet: the three assignments drop the boxes
\* held before.
set_wallet(h, self, wallet_name) ==
    LET m == match_wallet(wallet_name)
        fbox == Alloc(h, m.value.factory_object)
        wbox == Alloc(fbox.heap, m.value.wallet_object)
    IN  IF m.tag = "Err" THEN [heap |-> h, builder |-> self, ret |-> m]
        ELSE [heap |-> Free(Free(wbox.heap, self.wallet_contract),
                            self.factory_contract.box),
              builder |->
                  [self EXCEPT
                      !.wallet_contract = wbox.id,
                      !.factory_contract =
                          [variant |-> m.value.factory_variant, box |-> fbox.id],
                      !.factory_address = m.value.factory_address],
              ret |-> RetSelf]

\* set_scw_address with the signer's address as the creator.
set_scw_address_creator_is_signer(h, self, reply) ==
    LET query ==
            IF self.factory_contract.variant = "SimpleAccountFactory"
            THEN [contract |-> h.cells[self.factory_contract.box],
                  method |-> "generate_address",
                  args |-> << self.signer_address, U256_from(self.salt[1]) >>]
            ELSE [contract |-> h.cells[self.factory_contract.box],
                  method |-> "get_address",
                  args |-> << keccak256(BigEndian(self.salt[1], 8)),
                              BytesDefault >>]
    IN  IF self.salt = None
        THEN [builder |-> self, ret |-> Panicked, query |-> None]
        ELSE IF reply.tag = "Err"
        THEN [builder |-> self, ret |-> reply, query |-> Some(query)]
        ELSE [builder |-> [self EXCEPT !.scw_address = Some(reply.value)],
              ret |-> OkResult(reply.value),
              query |-> Some(query)]

\* set_scw_address with the stored address forgotten when the query fails.
set_scw_address_clears_on_failure(h, self, reply) ==
    LET query ==
            IF self.factory_contract.variant = "SimpleAccountFactory"
            THEN [contract |-> h.cells[self.factory_contract.box],
                  method |-> "generate_address",
                  args |-> << self.factory_address, U256_from(self.salt[1]) >>]
            ELSE [contract |-> h.cells[self.factory_contract.box],
                  method |-> "get_address",
                  args |-> << keccak256(BigEndian(self.salt[1], 8)),
                              BytesDefault >>]
    IN  IF self.salt = None
        THEN [builder |-> self, ret |-> Panicked, query |-> None]
        ELSE IF reply.tag = "Err"
        THEN [builder |-> [self EXCEPT !.scw_address = None], ret |-> reply,
              query |-> Some(query)]
        ELSE [builder |-> [self EXCEPT !.scw_address = Some(reply.value)],
              ret |-> OkResult(reply.value),
              query |-> Some(query)]

\* UserOperationBuilder::set_scw_address.  reply is what the chain answers
\* to the factory's address query: Ok of an address, or the Err of a failed
\* call.  expect and unwrap on an absent salt panic before any query.  The
\* simple kind is asked with the factory address as creator and
\* U256::from(salt), the modular kind with keccak256 of the salt's eight
\* big-endian bytes and empty init code.
set_scw_address(h, self, reply) ==
    LET query ==
            IF self.factory_contract.variant = "SimpleAccountFactory"
            THEN [contract |-> h.cells[self.factory_contract.box],
                  method |-> "generate_address",
                  args |-> << self.factory_address, U256_from(self.salt[1]) >>]
            ELSE [contract |-> h.cells[self.factory_contract.box],
                  method |-> "get_address",
                  args |-> << keccak256(BigEndian(self.salt[1], 8)),
                              BytesDefault >>]
    IN  IF self.salt = None
        THEN [builder |-> self, ret |-> Panicked, query |-> None]
        ELSE IF reply.tag = "Err"
        THEN [builder |-> self, ret |-> reply, query |-> Some(query)]
        ELSE [builder |-> [self EXCEPT !.scw_address = Some(reply.value)],
              ret |-> OkResult(reply.value),
              query |-> Some(query)]

\* The setter of the field f.
ApplySetter(f, u, v) ==
    CASE f = "sender" -> set_uo_sender(u, v)
      [] f = "nonce" -> set_uo_nonce(u, v)
      [] f = "factory" -> set_uo_factory(u, v)
      [] f = "factory_data" -> set_uo_factory_data(u, v)
      [] f = "call_data" -> set_uo_call_data(u, v)
      [] f = "call_gas_limit" -> set_uo_call_gas_limit(u, v)
      [] f = "verification_gas_limit" -> set_uo_verification_gas_limit(u, v)
      [] f = "pre_verification_gas" -> set_uo_pre_verification_gas(u, v)
      [] f = "max_fee_per_gas" -> set_uo_max_fee_per_gas(u, v)
      [] f = "max_priority_fee_per_gas" -> set_uo_max_priority_fee_per_gas(u, v)
      [] f = "paymaster" -> set_uo_paymaster(u, v)
      [] f = "paymaster_verification_gas_limit" -> set_uo_paymaster_verification_gas_limit(u, v)
      [] f = "paymaster_post_op_gas_limit" -> set_uo_paymaster_post_op_gas_limit(u, v)
      [] f = "paymaster_data" -> set_uo_paymaster_data(u, v)
      [] f = "signature" -> set_uo_signature(u, v)

Labels ==
    {"simple-account", "simple-account-test", "msa-basic-account",
     "msa-account-sepolia", "nonexistent-kind", "SIMPLE-ACCOUNT"}

Signers == {1, 2}

ScwAddresses == {None, Some(3)}

Salts == {None, Some(5)}

\* The partials given to from_uo and set_uo.
AccountPartials ==
    {new,
     [f \in Fields |-> IF f = "signature" THEN None ELSE Some(SeedValue(f))],
     [f \in Fields |-> Some(SeedValue(f))]}

\* What the chain answers to an address query.
Replies ==
    {OkResult(4), ErrResult([error |-> "Revert"]),
     ErrResult([error |-> "MiddlewareError"])}

\* The operation applied last: its name, the builder it was applied to and
\* its arguments.
Op(name, target, label, field, value, query) ==
    [name |-> name, target |-> target, label |-> label, field |-> field,
     value |-> value, query |-> query]

InitAccount ==
    /\ builders = <<>>
    /\ heap = EmptyHeap
    /\ aop = Op("", 0, "", "", <<>>, None)
    /\ aret = RetNone
    /\ nops = 0
    /\ BuilderIdle
    /\ HashIdle
    /\ ResponseIdle
    /\ FeeIdle
    /\ TransferIdle
    /\ SignIdle
    /\ ConvertIdle
    /\ CallIdle

\* A constructor call: the builder made, if any, is the first one.
Construct(name, label, value, made) ==
    /\ builders = <<>>
    /\ builders' = IF made.ret.tag = "Ok" THEN <<made.ret.value>> ELSE <<>>
    /\ heap' = made.heap
    /\ aop' = Op(name, 0, label, "", value, None)
    /\ aret' = made.ret
    /\ UNCHANGED nops
    /\ UNCHANGED notAccountVars

AccountNew ==
    \E wallet_name \in Labels, eoa \in Signers, scw \in ScwAddresses,
       salt \in Salts :
        Construct("new", wallet_name, <<eoa, scw, salt>>,
                  UserOperationBuilder_new(heap, eoa, wallet_name, scw, salt))

AccountFromUo ==
    \E wallet_name \in Labels, p \in AccountPartials :
        Construct("from_uo", wallet_name, p,
                  UserOperationBuilder_from_uo(heap, p, wallet_name))

\* An operation applied to the builder i.
Apply(i, op, b2, h2, ret) ==
    /\ nops < MaxOps
    /\ builders' = [builders EXCEPT ![i] = b2]
    /\ heap' = h2
    /\ aop' = op
    /\ aret' = ret
    /\ nops' = nops + 1
    /\ UNCHANGED notAccountVars

AccountClone ==
    \E i \in 1..Len(builders) :
        LET c == clone(heap, builders[i])
        IN  /\ nops < MaxOps
            /\ builders' = Append(builders, c.value)
            /\ heap' = c.heap
            /\ aop' = Op("clone", i, "", "", <<>>, None)
            /\ aret' = OkResult(Len(builders) + 1)
            /\ nops' = nops + 1
            /\ UNCHANGED notAccountVars

AccountSetWallet ==
    \E i \in 1..Len(builders), wallet_name \in Labels :
        LET r == set_wallet(heap, builders[i], wallet_name)
        IN  Apply(i, Op("set_wallet", i, wallet_name, "", <<>>, None),
                  r.builder, r.heap, r.ret)

AccountSetScwAddress ==
    \E i \in 1..Len(builders), reply \in Replies :
        LET r == set_scw_address(heap, builders[i], reply)
        IN  Apply(i, Op("set_scw_address", i, "", "", reply, r.query),
                  r.builder, heap, r.ret)

AccountSetUo ==
    \E i \in 1..Len(builders), p \in AccountPartials :
        Apply(i, Op("set_uo", i, "", "", p, None),
              [builders[i] EXCEPT !.uo = set_uo(@, p)], heap, RetSelf)

AccountSetField ==
    \E i \in 1..Len(builders), f \in Fields :
        Apply(i, Op("set_uo_field", i, "", f, SeedValue(f), None),
              [builders[i] EXCEPT !.uo = ApplySetter(f, @, SeedValue(f))],
              heap, RetSelf)

NextAccount ==
    \/ AccountNew
    \/ AccountFromUo
    \/ AccountClone
    \/ AccountSetWallet
    \/ AccountSetScwAddress
    \/ AccountSetUo
    \/ AccountSetField

SpecAccount == InitAccount /\ [][NextAccount]_vars

(***************************************************************************)
(* Properties of whole builders.                                           *)
(***************************************************************************)
\* The labels the specification lists as supported.
SupportedLabels ==
    {"simple-account", "simple-account-test", "msa-basic-account",
     "msa-account-sepolia"}

\* The operation applied last resolved an account kind.
ResolvedKind == aop.name \in {"new", "from_uo", "set_wallet"}

\* C14: each of the four supported labels resolves in the account registry
\* and in the factory registry, and new and set_wallet succeed with it.
C14_SupportedLabelsResolve ==
    ResolvedKind /\ aop.label \in SupportedLabels =>
        /\ WalletRegistry_from_str(aop.label).tag = "Ok"
        /\ WalletFactoryAddresses_from_str(aop.label).tag = "Ok"
        /\ aret.tag # "Err"

\* C15: for a label outside the supported set both lookups fail with an
\* error naming the label, and new, from_uo and set_wallet fail with such
\* an error; new and from_uo produce no builder.
C15_UnsupportedLabelRejected ==
    ResolvedKind /\ aop.label \notin SupportedLabels =>
        /\ WalletRegistry_from_str(aop.label).tag = "Err"
        /\ WalletRegistry_from_str(aop.label).err.label = aop.label
        /\ WalletFactoryAddresses_from_str(aop.label).tag = "Err"
        /\ WalletFactoryAddresses_from_str(aop.label).err.label = aop.label
        /\ aret.tag = "Err"
        /\ aret.err.label = aop.label
        /\ aop.name \in {"new", "from_uo"} => builders = <<>>

C15_Witness ==
    /\ aop.name = "from_uo"
    /\ aop.label = "nonexistent-kind"
    /\ aret = ErrResult([error |-> "factory not supported",
                         label |-> "nonexistent-kind"])
    /\ builders = <<>>

\* The step is a successful set_wallet on the builder i.
SetWalletSucceeded(i) ==
    /\ aop'.name = "set_wallet"
    /\ aop'.target = i
    /\ aret'.tag = "Self"

\* C16: a successful set_wallet gives the builder the account binding, the
\* factory binding and the factory address of the new kind, and leaves the
\* partial operation, the salt, the stored address, the signer address and
\* the stored hash as they were.
C16_SetWalletFrame ==
    [][\A i \in 1..Len(builders) :
          SetWalletSucceeded(i) =>
              /\ builders'[i].uo = builders[i].uo
              /\ builders'[i].salt = builders[i].salt
              /\ builders'[i].scw_address = builders[i].scw_address
              /\ builders'[i].signer_address = builders[i].signer_address
              /\ builders'[i].uo_hash = builders[i].uo_hash
              /\ builders'[i].factory_address =
                     match_wallet(aop'.label).value.factory_address
              /\ heap'.cells[builders'[i].wallet_contract] =
                     match_wallet(aop'.label).value.wallet_object
              /\ heap'.cells[builders'[i].factory_contract.box] =
                     match_wallet(aop'.label).value.factory_object
              /\ builders'[i].factory_contract.variant =
                     match_wallet(aop'.label).value.factory_variant]_vars

C16_Witness ==
    /\ aop.name = "set_wallet"
    /\ aop.label = "simple-account-test"
    /\ aret.tag = "Self"
    /\ builders[aop.target].factory_address = GETH_SIMPLE_ACCOUNT_FACTORY
    /\ builders[aop.target].uo.nonce # None
    /\ builders[aop.target].scw_address # None
    /\ builders[aop.target].salt # None

\* C17: a setter returns the builder, makes its own field present with the
\* value given, and changes nothing else: not the other fourteen fields, not
\* the rest of the builder, not its boxes.
C17_SetterFrame ==
    [][aop'.name = "set_uo_field" =>
          /\ aret' = RetSelf
          /\ builders' =
                 [builders EXCEPT ![aop'.target].uo[aop'.field] = Some(aop'.value)]
          /\ heap' = heap]_vars

C17_Witness ==
    /\ aop.name = "set_uo_field"
    /\ aop.field = "paymaster"
    /\ aret = RetSelf
    /\ builders[aop.target].uo.paymaster = Some(aop.value)
    /\ builders[aop.target].uo.paymaster_data # None
    /\ builders[aop.target].uo.signature = None

\* C18: set_scw_address on a builder without a salt returns an error, asks
\* the chain nothing and leaves the stored address as it was.
C18_NoSaltIsError ==
    /\ aop.name = "set_scw_address"
    /\ builders[aop.target].salt = None
    => /\ aret.tag = "Err"
       /\ aop.query = None

\* What a builder holds, its boxes looked through.
View(h, b) ==
    [uo |-> b.uo,
     salt |-> b.salt,
     scw_address |-> b.scw_address,
     factory_address |-> b.factory_address,
     wallet_contract |->
         IF b.wallet_contract \in DOMAIN h.cells
         THEN h.cells[b.wallet_contract]
         ELSE [type |-> "dropped", address |-> ""],
     factory_variant |-> b.factory_contract.variant,
     factory_contract |->
         IF b.factory_contract.box \in DOMAIN h.cells
         THEN h.cells[b.factory_contract.box]
         ELSE [type |-> "dropped", address |-> ""]]

\* C19: a clone holds what its original holds, and whatever is applied to
\* one builder, every other builder holds what it held before.
C19_ClonesIndependent ==
    [][/\ aop'.name = "clone" =>
              /\ View(heap', builders'[Len(builders')]) =
                     View(heap, builders[aop'.target])
              /\ \A j \in 1..Len(builders) :
                     View(heap', builders'[j]) = View(heap, builders[j])
       /\ aop'.name \in {"set_uo_field", "set_uo", "set_wallet", "set_scw_address"} =>
              \A j \in (1..Len(builders)) \ {aop'.target} :
                  View(heap', builders'[j]) = View(heap, builders[j])]_vars

\* Of two clones the first was given another account kind and the second
\* still holds the kind, the partial operation and the address of clone time.
C19_Witness ==
    /\ Len(builders) = 2
    /\ aop.name = "set_wallet"
    /\ aop.target = 1
    /\ aret.tag = "Self"
    /\ View(heap, builders[1]).factory_address = GETH_SIMPLE_ACCOUNT_FACTORY
    /\ View(heap, builders[2]).factory_address = SIMPLE_ACCOUNT_FACTORY
    /\ View(heap, builders[2]).wallet_contract =
           [type |-> "SimpleAccount", address |-> SIMPLE_ACCOUNT_FACTORY]
    /\ View(heap, builders[2]).factory_contract =
           [type |-> "SimpleAccountFactory", address |-> SIMPLE_ACCOUNT_FACTORY]

\* C21: from_uo with a supported label yields a builder whose accumulator is
\* the partial given, field for field, so that build_uo on it succeeds exactly
\* when the partial has all fifteen fields; and set_uo leaves the accumulator
\* equal to the partial given, whatever was set before.
C21_FromUoSeedsAccumulator ==
    /\ aop.name = "from_uo" /\ aop.label \in SupportedLabels =>
           /\ aret.tag = "Ok"
           /\ Len(builders) = 1
           /\ \A f \in Fields : builders[1].uo[f] = aop.value[f]
           /\ build_uo(builders[1].uo).tag = "Ok" <=> AbsentFields(aop.value) = {}
    /\ aop.name = "set_uo" =>
           \A f \in Fields : builders[aop.target].uo[f] = aop.value[f]

\* The step is set_scw_address on the builder i, which has a salt.
SetScwAddressWithSalt(i) ==
    /\ aop'.name = "set_scw_address"
    /\ aop'.target = i
    /\ builders[i].salt # None

\* C25: set_scw_address on a builder with a salt asks the builder's factory:
\* the simple kind generate_address(creator, salt as a 256-bit integer), the
\* modular kind get_address(keccak256 of the salt's eight big-endian bytes,
\* empty init code).  When the chain answers an address, that address is
\* stored and returned; when the query fails, the failure is returned as it
\* is and the stored address stays.  Nothing else of the builder changes,
\* the partial operation included.
C25_SetScwAddressFrame ==
    [][\A i \in 1..Len(builders) :
          SetScwAddressWithSalt(i) =>
              /\ aop'.query # None
              /\ aop'.query[1].contract =
                     heap.cells[builders[i].factory_contract.box]
              /\ builders[i].factory_contract.variant = "SimpleAccountFactory" =>
                     /\ aop'.query[1].method = "generate_address"
                     /\ Len(aop'.query[1].args) = 2
                     /\ aop'.query[1].args[1] \in
                            {SIMPLE_ACCOUNT_FACTORY, GETH_SIMPLE_ACCOUNT_FACTORY}
                     /\ \A j \in 0..31 :
                            aop'.query[1].args[2][j + 1] =
                                IF j < 4
                                THEN (builders[i].salt[1] \div (256 ^ j)) % 256
                                ELSE 0
              /\ builders[i].factory_contract.variant = "MSABasicFactory" =>
                     /\ aop'.query[1].method = "get_address"
                     /\ aop'.query[1].args =
                            << keccak256(BigEndian(builders[i].salt[1], 8)), <<>> >>
              /\ aop'.value.tag = "Ok" =>
                     /\ aret' = OkResult(aop'.value.value)
                     /\ builders'[i].scw_address = Some(aop'.value.value)
              /\ aop'.value.tag = "Err" =>
                     /\ aret' = aop'.value
                     /\ builders'[i].scw_address = builders[i].scw_address
              /\ builders'[i].uo = builders[i].uo
              /\ builders' =
                     [builders EXCEPT ![i].scw_address = builders'[i].scw_address]
              /\ heap' = heap]_vars

\* A failed query on a builder made with an address: the address is still
\* there, and so is the sender set before.
C25_Witness ==
    /\ aop.name = "set_scw_address"
    /\ aret = ErrResult([error |-> "Revert"])
    /\ aop.query # None
    /\ builders[aop.target].salt = Some(5)
    /\ builders[aop.target].scw_address = Some(3)
    /\ builders[aop.target].uo.sender # None

\* C28: set_wallet with a label outside the supported set returns an error
\* and changes nothing: the builder, with its account binding, factory
\* binding, factory address, partial operation, salt and stored address, and
\* the boxes are as before.
C28_FailedSetWalletChangesNothing ==
    [][aop'.name = "set_wallet" /\ aop'.label \notin SupportedLabels =>
          /\ aret'.tag = "Err"
          /\ builders' = builders
          /\ heap' = heap
          /\ View(heap', builders'[aop'.target]) =
                 View(heap, builders[aop'.target])]_vars

\* set_wallet failed on a builder that has a salt, a stored address and a
\* field set.
C28_Witness ==
    /\ aop.name = "set_wallet"
    /\ aop.label = "nonexistent-kind"
    /\ aret.tag = "Err"
    /\ builders[aop.target].scw_address # None
    /\ builders[aop.target].salt # None
    /\ builders[aop.target].uo.nonce # None
    /\ builders[aop.target].factory_address = SIMPLE_ACCOUNT_FACTORY

\* C29: the signer address has no part in set_scw_address: a builder that
\* differs from the one asked only in its signer address puts the same query
\* (same factory, same creator, same salt), gets the same result and stores
\* the same address; the creator of the simple kind's query is the builder's
\* factory address.
C29_SignerHasNoInfluence ==
    [][\A i \in 1..Len(builders) :
          SetScwAddressWithSalt(i) =>
              /\ \A s \in Signers :
                     LET other == set_scw_address(
                                      heap,
                                      [builders[i] EXCEPT !.signer_address = s],
                                      aop'.value)
                     IN  /\ other.query = aop'.query
                         /\ other.ret = aret'
                         /\ other.builder.scw_address = builders'[i].scw_address
              /\ builders[i].factory_contract.variant = "SimpleAccountFactory" =>
                     aop'.query[1].args[1] = builders[i].factory_address]_vars

\* An address was derived for a builder made by new with the signer 2.
C29_Witness ==
    /\ aop.name = "set_scw_address"
    /\ aret = OkResult(4)
    /\ builders[aop.target].signer_address = 2
    /\ builders[aop.target].scw_address = Some(4)
    /\ aop.query[1].args[1] = builders[aop.target].factory_address

(***************************************************************************)
(* The partial operation of uogen_send_eth, handed to a builder.           *)
(***************************************************************************)
\* The fields uogen_send_eth leaves to the caller.
LeftAbsent ==
    {"factory", "factory_data", "paymaster", "paymaster_verification_gas_limit",
     "paymaster_post_op_gas_limit", "paymaster_data"}

RECURSIVE SetFields(_, _, _)
\* The accumulator u after the setters of the fields of S among the first i
\* fields were called, in declaration order.
SetFields(u, S, i) ==
    IF i = 0 THEN u
    ELSE IF FieldOrder[i] \in S
    THEN ApplySetter(FieldOrder[i], SetFields(u, S, i - 1), SeedValue(FieldOrder[i]))
    ELSE SetFields(u, S, i - 1)

\* The builder from_uo makes of the partial operation uogen_send_eth returned.
SeededBuilder ==
    UserOperationBuilder_from_uo(EmptyHeap, tret.value, "simple-account")

\* C27: the partial operation a successful uogen_send_eth returns has the
\* sender, the nonce, the call data, the three gas limits, the two fees and
\* an empty signature, and has no factory, factory data, paymaster, paymaster
\* gas limits or paymaster data; build_uo on a builder made from it by
\* from_uo fails naming "factory", and succeeds after setters were called
\* exactly when all six fields were set.
C27_TransferPartialLacksSix ==
    tpc = "done" /\ tret.tag = "Ok" =>
        /\ \A f \in {"sender", "nonce", "call_data", "call_gas_limit",
                     "verification_gas_limit", "pre_verification_gas",
                     "max_fee_per_gas", "max_priority_fee_per_gas"} :
               tret.value[f] # None
        /\ tret.value.signature = Some(<<>>)
        /\ \A f \in LeftAbsent : tret.value[f] = None
        /\ SeededBuilder.ret.tag = "Ok"
        /\ build_uo(SeededBuilder.ret.value.uo) =
               MissingUserOperationField("factory")
        /\ \A S \in SUBSET LeftAbsent :
               build_uo(SetFields(SeededBuilder.ret.value.uo, S, 15)).tag = "Ok"
                   <=> S = LeftAbsent

\* uogen_send_eth returned a partial operation with estimated limits.
C27_Witness ==
    /\ tpc = "done"
    /\ tret.tag = "Ok"
    /\ tret.value.factory = None
    /\ tret.value.call_gas_limit = Some(21000)
    /\ Len(tret.value.call_data[1]) = 164

(***************************************************************************)
(* Signing: sign_uo.                                                       *)
(***************************************************************************)
\* sign_uo with the packed operation, signature included, under the digest.
sign_uo_signs_pack(self, o, reply) ==
    LET h == hash_of_pack(o, self.entry_point_address, self.chain_id)
    IN  [signed |-> h,
         ret |-> IF reply = None THEN ErrResult([error |-> "Wallet"])
                 ELSE OkResult(UserOperation_signature(o, reply[1]))]

\* UserOpMiddleware::sign_uo.  The signer is given the bytes of the hash of
\* the operation under the client's entry point and chain id; reply is its
\* answer, the signature bytes or None for a failure.
sign_uo(self, o, reply) ==
    LET h == hash(o, self.entry_point_address, self.chain_id)
    IN  [signed |-> h,
         ret |-> IF reply = None THEN ErrResult([error |-> "Wallet"])
                 ELSE OkResult(UserOperation_signature(o, reply[1]))]

\* The operations given to sign_uo.
SignOperations ==
    { [UserOperationDefault EXCEPT !.sender = a, !.nonce = n, !.call_data = c,
                                   !.paymaster = p, !.signature = g] :
        a \in HashAddrs, n \in HashU256s, c \in HashBytes, p \in HashStrs,
        g \in HashBytes }

\* What the signer answers: a failure, or signature bytes.
SignerReplies == {None, Some(<<7>>), Some(<<8, 9>>)}

SignClients == [entry_point_address : EntryPoints, chain_id : ChainIds]

InitSign ==
    /\ sin \in [client : SignClients, op : SignOperations, reply : SignerReplies]
    /\ sout = <<>>
    /\ BuilderIdle
    /\ HashIdle
    /\ ResponseIdle
    /\ FeeIdle
    /\ TransferIdle
    /\ AccountIdle
    /\ ConvertIdle
    /\ CallIdle

SignUo ==
    /\ sout' = sign_uo(sin.client, sin.op, sin.reply)
    /\ UNCHANGED sin
    /\ UNCHANGED notSignVars

NextSign == SignUo

SpecSign == InitSign /\ [][NextSign]_vars

\* C20: sign_uo gives the signer the hash of the operation under the
\* client's entry point and chain id, whatever signature the operation came
\* with; the operation returned has the signer's answer as signature, every
\* other field as given, and the hash of the operation given.
C20_SignSetsOnlySignature ==
    sout # <<>> =>
        /\ sout.signed =
               hash(sin.op, sin.client.entry_point_address, sin.client.chain_id)
        /\ sout.signed =
               hash([sin.op EXCEPT !.signature = <<>>],
                    sin.client.entry_point_address, sin.client.chain_id)
        /\ sin.reply # None =>
              /\ sout.ret.tag = "Ok"
              /\ sout.ret.value.signature = sin.reply[1]
              /\ \A f \in Fields \ {"signature"} :
                     sout.ret.value[f] = sin.op[f]
              /\ hash(sout.ret.value, sin.client.entry_point_address,
                      sin.client.chain_id) = sout.signed

C20_Witness ==
    /\ sout # <<>>
    /\ sin.op.signature = <<1>>
    /\ sin.op.call_data = <<1>>
    /\ sin.reply = Some(<<8, 9>>)
    /\ sout.ret.tag = "Ok"
    /\ sout.ret.value.signature = <<8, 9>>
    /\ sout.ret.value.call_data = <<1>>

(***************************************************************************)
(* The permissive conversion of a partial operation, on its own.           *)
(***************************************************************************)
\* The value of a field that SeedValue does not pick.
OtherValue(f) == CHOOSE v \in ValuesOf(f) : v # SeedValue(f)

\* The partials converted: any set of fields present, with one of two values
\* for each field.
ConvertPartials(choices) ==
    { [f \in Fields |->
          IF f \in present
          THEN Some(IF f \in seeded THEN SeedValue(f) ELSE OtherValue(f))
          ELSE None] :
        present \in SUBSET Fields, seeded \in choices }

InitConvert ==
    /\ cin \in ConvertPartials({{}, Fields})
    /\ cout = RetNone
    /\ BuilderIdle
    /\ HashIdle
    /\ ResponseIdle
    /\ FeeIdle
    /\ TransferIdle
    /\ AccountIdle
    /\ SignIdle
    /\ CallIdle

\* UserOperation::from(partial)
From ==
    /\ cout = RetNone
    /\ cout' = OkResult(FromPartial(cin))
    /\ UNCHANGED cin
    /\ UNCHANGED notConvertVars

NextConvert == From

SpecConvert == InitConvert /\ [][NextConvert]_vars

\* C22: the conversion of a partial operation always yields an operation, in
\* which every present field has the value given and every absent field has
\* its default: the zero address for sender and factory, zero for the nine
\* integers, empty bytes for factory_data, call_data, paymaster_data and
\* signature, and the two characters "0x" for paymaster; the partial with no
\* field present yields these defaults in all fifteen fields.
C22_PermissiveConversion ==
    cout # RetNone =>
        /\ cout.tag = "Ok"
        /\ DOMAIN cout.value = Fields
        /\ \A f \in Fields : cin[f] # None => cout.value[f] = cin[f][1]
        /\ \A f \in {"sender", "factory"} : cin[f] = None => cout.value[f] = 0
        /\ \A f \in {"nonce", "call_gas_limit", "verification_gas_limit",
                     "pre_verification_gas", "max_fee_per_gas",
                     "max_priority_fee_per_gas",
                     "paymaster_verification_gas_limit",
                     "paymaster_post_op_gas_limit"} :
               cin[f] = None => cout.value[f] = 0
        /\ \A f \in {"factory_data", "call_data", "paymaster_data", "signature"} :
               cin[f] = None => cout.value[f] = <<>>
        /\ cin.paymaster = None =>
               /\ Len(cout.value.paymaster) = 2
               /\ cout.value.paymaster = <<48, 120>>
        /\ (\A f \in Fields : cin[f] = None) =>
               cout.value =
                   [sender |-> 0, nonce |-> 0, factory |-> 0,
                    factory_data |-> <<>>, call_data |-> <<>>,
                    call_gas_limit |-> 0, verification_gas_limit |-> 0,
                    pre_verification_gas |-> 0, max_fee_per_gas |-> 0,
                    max_priority_fee_per_gas |-> 0, paymaster |-> <<48, 120>>,
                    paymaster_verification_gas_limit |-> 0,
                    paymaster_post_op_gas_limit |-> 0,
                    paymaster_data |-> <<>>, signature |-> <<>>]

\* A partial with some fields present and the paymaster absent was converted.
C22_Witness ==
    /\ cout # RetNone
    /\ cin.sender = Some(2)
    /\ cin.call_data = Some(<<1>>)
    /\ cin.nonce = None
    /\ cin.paymaster = None
    /\ cin.signature = None
    /\ cout.value.sender = 2
    /\ cout.value.paymaster = PaymasterNone

(***************************************************************************)
(* The client's get_nonce and calldata_gen_send_eth, called on their own.  *)
(***************************************************************************)
\* 1_000_000_000_000_000 and 2^256 - 1 as 256-bit integers.
FinneyDigits ==
    [i \in 1..32 |-> IF i <= 7 THEN <<0, 128, 198, 164, 126, 141, 3>>[i] ELSE 0]

U256Max == [i \in 1..32 |-> 255]

Validators ==
    {[i \in 1..20 |-> 255], [i \in 1..20 |-> i],
     [i \in 1..20 |-> IF i = 20 THEN 1 ELSE 0]}

Destinations == {[i \in 1..20 |-> 160 + i], [i \in 1..20 |-> 0]}

\* The client, the arguments of the call and what the chain and the
\* encoder will answer.
CallEnvs ==
    [sender : Addrs, validator : Validators, entry_point_address : {2},
     to_address : Destinations,
     value : {U256_from(0), U256_from(5), FinneyDigits, U256Max},
     nonce : {None, Some(0), Some(7)}, encode_ok : BOOLEAN]

InitCalls ==
    /\ kin \in CallEnvs
    /\ kout = [name |-> "", query |-> None, ret |-> RetNone]
    /\ BuilderIdle
    /\ HashIdle
    /\ ResponseIdle
    /\ FeeIdle
    /\ TransferIdle
    /\ AccountIdle
    /\ SignIdle
    /\ ConvertIdle

\* self.get_nonce()
GetNonce ==
    LET r == get_nonce(kin)
    IN  /\ kout' = [name |-> "get_nonce", query |-> Some(r.query),
                    ret |-> r.ret]
        /\ UNCHANGED kin
        /\ UNCHANGED notCallVars

\* self.calldata_gen_send_eth(to_address, value)
CalldataGenSendEth ==
    /\ kout' = [name |-> "calldata_gen_send_eth", query |-> None,
                ret |-> calldata_gen_send_eth(kin, kin.to_address, kin.value)]
    /\ UNCHANGED kin
    /\ UNCHANGED notCallVars

NextCalls ==
    \/ GetNonce
    \/ CalldataGenSendEth

SpecCalls == InitCalls /\ [][NextCalls]_vars

\* The digit of weight 256^j of a 256-bit integer.
Digit(v, j) == v[j + 1]

\* calldata_gen_send_eth returned calldata.
CalldataReturned ==
    kout.name = "calldata_gen_send_eth" /\ kout.ret.tag = "Ok"

\* C23 as stated: the calldata is the 32 zero bytes of the mode tag, then the
\* 20 bytes of the destination, then the 32 bytes of the value, the most
\* significant first, then one zero byte, and nothing else.
C23_CalldataLayout ==
    CalldataReturned =>
        /\ Len(kout.ret.value) = 85
        /\ \A i \in 1..32 : kout.ret.value[i] = 0
        /\ \A i \in 1..20 : kout.ret.value[32 + i] = kin.to_address[i]
        /\ \A i \in 1..32 : kout.ret.value[52 + i] = Digit(kin.value, 32 - i)
        /\ kout.ret.value[85] = 0

\* C23 amended: the calldata is the call execute(mode, data) in ABI form: the
\* four bytes of the selector, the 32 zero bytes of the mode tag, the offset
\* word (64) and the length word (53) of data, then data, which is the 20
\* bytes of the destination, the 32 bytes of the value, the most significant
\* first, and one zero byte, then 11 zero bytes that fill the last word.
C23_CalldataIsExecuteCall ==
    CalldataReturned =>
        /\ Len(kout.ret.value) = 164
        /\ \A i \in 1..4 : kout.ret.value[i] = ExecuteSelector[i]
        /\ \A i \in 1..32 : kout.ret.value[4 + i] = 0
        /\ \A i \in 1..32 : kout.ret.value[36 + i] = IF i = 32 THEN 64 ELSE 0
        /\ \A i \in 1..32 : kout.ret.value[68 + i] = IF i = 32 THEN 53 ELSE 0
        /\ \A i \in 1..20 : kout.ret.value[100 + i] = kin.to_address[i]
        /\ \A i \in 1..32 : kout.ret.value[120 + i] = Digit(kin.value, 32 - i)
        /\ kout.ret.value[153] = 0
        /\ \A i \in 154..164 : kout.ret.value[i] = 0

\* Calldata for the largest value and a destination with no zero byte.
C23_Witness ==
    /\ CalldataReturned
    /\ kin.value = U256Max
    /\ kin.to_address = [i \in 1..20 |-> 160 + i]
    /\ kout.ret.value[121] = 255
    /\ kout.ret.value[101] = 161

\* C24: get_nonce asks the entry point for the nonce of the client's sender
\* under a key whose big-endian bytes 8..27 are the validator's twenty bytes
\* and whose bytes 0..7 and 28..31 are zero; the key is the validator times
\* 2^32 (the validator's digits moved up by four) and is below 2^192 (no
\* digit of weight 256^24 or more).
C24_NonceKey ==
    kout.name = "get_nonce" =>
        /\ kout.query # None
        /\ kout.query[1].contract = kin.entry_point_address
        /\ kout.query[1].method = "get_nonce"
        /\ kout.query[1].args[1] = kin.sender
        /\ \A i \in 0..31 :
               Digit(kout.query[1].args[2], 31 - i) =
                   IF i \in 8..27 THEN kin.validator[i - 7] ELSE 0
        /\ \A j \in 0..31 :
               Digit(kout.query[1].args[2], j) =
                   IF j \in 4..23 THEN kin.validator[20 - (j - 4)] ELSE 0
        /\ \A j \in 24..31 : Digit(kout.query[1].args[2], j) = 0

\* The nonce was read for the validator whose bytes are all 255.
C24_Witness ==
    /\ kout.name = "get_nonce"
    /\ kout.ret.tag = "Ok"
    /\ kin.validator = [i \in 1..20 |-> 255]
    /\ Digit(kout.query[1].args[2], 23) = 255
    /\ Digit(kout.query[1].args[2], 4) = 255

====
